---- MODULE Spec2Model ----
(***************************************************************************)
(* Access-control backend (control-de-seguridad): token validation, the    *)
(* audit trail, and guard shifts, as implemented by the request handlers   *)
(* of backend/src/server.ts, the older handlers kept in                    *)
(* backend/update-pinhashes.js and the first /validate of                  *)
(* src/unnamed/part_003.                                                   *)
(*                                                                         *)
(* Every handler is an async function: it runs atomically between two      *)
(* awaits, and every await is one operation on the Firebase store.  A      *)
(* model step is therefore "the code up to and including the next store    *)
(* operation"; handlers of concurrent requests interleave at these steps.  *)
(* Each element of Procs carries one request from "idle" to "done".        *)
(***************************************************************************)
EXTENDS Integers, Sequences, FiniteSets, TLC

(* ------------------------------ bounds --------------------------------- *)
\* number of requests served in one behaviour
NumCalls == 2
\* the clock (Date.now()) runs from 1 to MaxTime
MaxTime == 2
\* token values crypto.randomBytes can still hand out: 1..MaxTok
MaxTok == 2
\* store writes of attendance / accessHistory / guardAuthorizations that may
\* fail in one behaviour
MaxFaults == 1
\* keys db.ref("guardShifts").push() can still hand out: 1..MaxShifts
MaxShifts == 3

(* ----------------------------- universes ------------------------------- *)
Procs == 1..NumCalls
Times == 1..MaxTime
\* identities (students, teachers, admins): the keys of accessTokens/
Ids == {1, 2}
NoId == 0
\* String(req.body?.token || "") of a request without token
EmptyTok == 0
\* a token made of white space only
BlankTok == -1
FreshToks == 1..MaxTok
\* the token identity 1 holds from the start
FirstTok == MaxTok + 1
\* the key createToken() writes under tokens/
LegacyTok == MaxTok + 2
TokVals == FreshToks \cup {FirstTok, LegacyTok}
TokInputs == TokVals \cup {EmptyTok, BlankTok}
Guards == {"g1", "g2"}
NoGuard == "none"
ShiftIds == 1..MaxShifts
NoShiftId == 0
\* PINs: 1 is the PIN guard g1 was created with, 2 another one; -x is x with
\* blanks around it, NoPin a request without pin
Pins == {1, 2}
NoPin == 0
PaddedPin(x) == 0 - x
PinInputs == Pins \cup {NoPin, PaddedPin(1), PaddedPin(2)}
\* a record without pinHash
NoHash == 0
\* the null name of an audit entry
NoName == 0
\* guards/{id}: pinHash as the scripts and POST /guards/create write it; pin
\* is the older plaintext field the login still reads.
NoGuardRec == [exists |-> FALSE, pinHash |-> NoHash, pin |-> NoPin]

VARIABLES
  clock,         \* Date.now()
  accessTokens,  \* accessTokens/{id}
  tokens,        \* tokens/{token}
  nextTok,       \* next value crypto.randomBytes(12) returns
  attendance,    \* attendance/{sessionId}/{id}/{pushId}, in push order
  accessHistory, \* accessHistory/{pushId}, in push order
  faults,        \* store writes that have failed so far
  guardShifts,   \* guardShifts/{shiftId}
  nextShift,     \* next key of db.ref("guardShifts").push()
  guardAuthorizations, \* guardAuthorizations/{authId}, in push order
  guards,        \* guards/{id}
  pc,            \* position of each request's handler
  op,            \* which handler serves the request
  req,           \* the request's inputs
  loc,           \* the handler's local variables
  resp           \* the response sent

vars == <<clock, accessTokens, tokens, nextTok, attendance, accessHistory,
          faults, guardShifts, nextShift, guardAuthorizations, guards, pc, op,
          req, loc, resp>>

tokenVars == <<accessTokens, tokens, nextTok, attendance, accessHistory, faults>>
shiftVars == <<guardShifts, nextShift, guardAuthorizations, guards>>

(* --------------------------- token records ----------------------------- *)
\* A record of accessTokens/ or tokens/.  A field the stored object lacks has
\* its falsy value (0, FALSE); createdAt and deviceId are read by no handler
\* and are left out.
NoTok ==
  [exists |-> FALSE, token |-> EmptyTok, studentUid |-> NoId,
   expiresAt |-> 0, used |-> FALSE, usedAt |-> 0]

\* set({ token, createdAt }) of ensureTokenForId, POST /users, PUT /users/:id
NewAccessToken(t) ==
  [exists |-> TRUE, token |-> t, studentUid |-> NoId,
   expiresAt |-> 0, used |-> FALSE, usedAt |-> 0]

\* set({ token, createdAt, expiresAt }) of scripts/create-tokens.js
ScriptAccessToken(t, e) ==
  [exists |-> TRUE, token |-> t, studentUid |-> NoId,
   expiresAt |-> e, used |-> FALSE, usedAt |-> 0]

\* createToken(tokenId, studentUid, ttlMs): tokens/{tokenId}
createToken(uid, e) ==
  [exists |-> TRUE, token |-> EmptyTok, studentUid |-> uid,
   expiresAt |-> e, used |-> FALSE, usedAt |-> 0]

\* a faulty conversion: the token is not trimmed
TrimNothing(t) == t

\* String(...).trim()
Trim(t) == IF t = BlankTok THEN EmptyTok ELSE t

\* !token  (JavaScript falsiness of a string: only "" is falsy)
NeverFalsy(t) == FALSE

\* !token: the empty string and a missing field are falsy
Falsy(t) == t = EmptyTok

Min(S) == CHOOSE x \in S : \A y \in S : x <= y

\* a faulty query: no equalTo filter, every child is returned
ByTokenUnfiltered(store, tokenId) == {k \in DOMAIN store : store[k].exists}

\* ref.orderByChild('token').equalTo(tokenId).once('value'): the keys of the
\* children whose 'token' equals tokenId
ByToken(store, tokenId) ==
  {k \in DOMAIN store : store[k].exists /\ store[k].token = tokenId}

(* ------------------------------ responses ------------------------------ *)
\* status is the HTTP status, body the error / message of the JSON body; id,
\* token and shiftId are the studentUid / id, token and shiftId it carries.
NoResp ==
  [status |-> 0, body |-> "none", id |-> NoId, token |-> EmptyTok,
   shiftId |-> NoShiftId, authId |-> 0, claim |-> NoGuard, data |-> <<>>]
Reply(s, b) == [NoResp EXCEPT !.status = s, !.body = b]
ReplyId(s, b, i) == [NoResp EXCEPT !.status = s, !.body = b, !.id = i]
ReplyToken(s, b, i, t) ==
  [NoResp EXCEPT !.status = s, !.body = b, !.id = i, !.token = t]
ReplyShift(s, b, k) == [NoResp EXCEPT !.status = s, !.body = b, !.shiftId = k]
ReplyAuth(s, b, a) == [NoResp EXCEPT !.status = s, !.body = b, !.authId = a]
ReplyClaim(s, b, g) == [NoResp EXCEPT !.status = s, !.body = b, !.claim = g]
ReplyData(s, b, d) == [NoResp EXCEPT !.status = s, !.body = b, !.data = d]

\* The inputs of a request; at is the time it arrived and after the requests
\* already answered by then.  claim is the guardId of the verified claim
\* (req.guard.id set by requireGuard), bodyGuard the guardId of the body, and
\* guard the guardId the handler works with.
NoReq ==
  [token |-> EmptyTok, id |-> NoId, regenerate |-> FALSE, guard |-> NoGuard,
   shiftId |-> NoShiftId, force |-> FALSE, notes |-> 0, at |-> 0, after |-> {},
   cred |-> "none", pin |-> NoPin, limit |-> [kind |-> "missing", n |-> 0],
   claim |-> NoGuard, bodyGuard |-> NoGuard]
NoLoc ==
  [now |-> 0, foundKey |-> NoId, tokenData |-> NoTok, tokenId |-> EmptyTok,
   open |-> {}, target |-> NoShiftId, notes |-> 0, authId |-> 0,
   guard |-> NoGuardRec, name |-> NoName]

\* The handlers registered behind requireGuard and behind requireAdmin
\* (ensureTokenForId runs inside POST /teachers and POST /admins).
GuardHandlers == {"guardShiftStart", "guardShiftEnd", "guardAuthorize"}
AdminHandlers ==
  {"usersPost", "usersPut", "delete", "ensureToken", "adminShiftStart",
   "adminShiftEnd", "oldShiftStart", "oldShiftEnd", "oldAuthorize"}

\* What a request carries when the middleware of handler h calls next(): a
\* Bearer token jwt.verify accepts, or the x-admin-secret.
Credential(h) ==
  IF h \in GuardHandlers THEN "guard claim"
  ELSE IF h \in AdminHandlers THEN "admin secret"
  ELSE "none"

\* Requests are interchangeable, so they are started in the order of Procs.
CanStart(p) ==
  /\ pc[p] = "idle"
  /\ \A q \in Procs : q < p => pc[q] # "idle"

\* res.status(s).json(...): the handler returns and its locals are gone.
Finish(p, r) ==
  /\ pc' = [pc EXCEPT ![p] = "done"]
  /\ resp' = [resp EXCEPT ![p] = r]
  /\ loc' = [loc EXCEPT ![p] = NoLoc]

\* The handler awaits its next store operation at label, with locals l.
Goto(p, label, l) ==
  /\ pc' = [pc EXCEPT ![p] = label]
  /\ loc' = [loc EXCEPT ![p] = l]
  /\ resp' = resp

\* A request with inputs r enters handler h.
Start(p, h, r) ==
  /\ CanStart(p)
  /\ op' = [op EXCEPT ![p] = h]
  /\ req' = [req EXCEPT ![p] =
               [r EXCEPT !.at = clock, !.after = {q \in Procs : pc[q] = "done"},
                         !.cred = Credential(h)]]

\* A later step of the handler of p, which stands at label.
At(p, label) ==
  /\ pc[p] = label
  /\ UNCHANGED <<op, req>>

(* ------------------------------- logAccess ----------------------------- *)
\* the name of the students/{id} record
StudentName(i) == 100 + i

\* The entry logAccess builds.
AuditEntry(id, name, token, authorized, reason, now) ==
  [id |-> id, name |-> name, token |-> token, authorized |-> authorized,
   reason |-> reason, timestamp |-> now, guardOverrideId |-> 0]

\* the outcomes a store write can have: accepted (TRUE) or failed (FALSE)
WriteOutcomes == IF faults < MaxFaults THEN {TRUE, FALSE} ELSE {TRUE}

\* a faulty log: the entry replaces the collection (set instead of push)
logAccessSet(id, name, token, authorized, reason, ok) ==
  IF ok THEN
    /\ accessHistory' = <<AuditEntry(id, name, token, authorized, reason, clock)>>
    /\ faults' = faults
  ELSE
    /\ accessHistory' = accessHistory
    /\ faults' = faults + 1

\* logAccess: push the entry; a failing write is caught and logged, the
\* caller sees no error.  ok says whether the store accepted the write.
logAccess(id, name, token, authorized, reason, ok) ==
  IF ok THEN
    /\ accessHistory' = Append(accessHistory,
                               AuditEntry(id, name, token, authorized, reason, clock))
    /\ faults' = faults
  ELSE
    /\ accessHistory' = accessHistory
    /\ faults' = faults + 1

(* ------------------------------ attendance ----------------------------- *)
\* The object written under attendance/{sessionId}/{id}; sessionId and type
\* take their defaults "default" and "entry".
AttendanceMark(id, now, tokenId) ==
  [sessionId |-> "default", id |-> id, type |-> "entry", timestamp |-> now,
   tokenId |-> tokenId]

\* attendance/{sessionId}/{id}.push().set(mark)
WriteAttendance(mark, ok) ==
  IF ok THEN
    /\ attendance' = Append(attendance, mark)
    /\ faults' = faults
  ELSE
    /\ attendance' = attendance
    /\ faults' = faults + 1

(* ---------------- POST /validate of backend/src/server.ts -------------- *)
\* if (tokenData.used)
IsUsed(tokenData) == tokenData.used

\* a faulty comparison: a token is expired from the instant expiresAt on
IsExpiredInclusive(tokenData, now) ==
  tokenData.expiresAt # 0 /\ now >= tokenData.expiresAt

\* if (tokenData.expiresAt && now > Number(tokenData.expiresAt))
IsExpired(tokenData, now) == tokenData.expiresAt # 0 /\ now > tokenData.expiresAt

\* Start of the handler up to its first store operation: the missing-token
\* reply, or the query of accessTokens by child 'token'.
ValidateBegin(p, t) ==
  /\ Start(p, "validate", [NoReq EXCEPT !.token = t])
  /\ LET tokenId == Trim(t)
         hits == ByToken(accessTokens, tokenId)
         l == [NoLoc EXCEPT !.now = clock, !.tokenId = tokenId]
     IN IF Falsy(tokenId) THEN
          /\ \E ok \in WriteOutcomes :
               logAccess(NoId, NoName, tokenId, FALSE, "token required", ok)
          /\ Finish(p, Reply(400, "token required"))
        ELSE IF hits # {} THEN
          /\ Goto(p, "vs_check", [l EXCEPT !.foundKey = Min(hits),
                                           !.tokenData = accessTokens[Min(hits)]])
          /\ UNCHANGED <<accessHistory, faults>>
        ELSE
          /\ Goto(p, "vs_alt", l)
          /\ UNCHANGED <<accessHistory, faults>>
  /\ UNCHANGED <<clock, accessTokens, tokens, nextTok, attendance, shiftVars>>

\* The fallback query of tokens/ by child 'token'.
ValidateAlt(p) ==
  /\ At(p, "vs_alt")
  /\ LET hits == ByToken(tokens, loc[p].tokenId)
     IN Goto(p, "vs_check",
             IF hits # {}
             THEN [loc[p] EXCEPT !.foundKey = Min(hits),
                                 !.tokenData = tokens[Min(hits)]]
             ELSE loc[p])
  /\ UNCHANGED <<clock, tokenVars, shiftVars>>

\* The decisions on the snapshot read by the lookup, then the attendance
\* write (a failing write is caught and only warned about).
ValidateCheck(p) ==
  /\ At(p, "vs_check")
  /\ LET l == loc[p]
     IN IF l.foundKey = NoId \/ ~l.tokenData.exists THEN
          /\ \E ok \in WriteOutcomes :
               logAccess(NoId, NoName, l.tokenId, FALSE, "token not found", ok)
          /\ Finish(p, Reply(404, "token not found"))
          /\ UNCHANGED attendance
        ELSE IF IsUsed(l.tokenData) THEN
          /\ \E ok \in WriteOutcomes :
               logAccess(l.foundKey, NoName, l.tokenId, FALSE, "token already used", ok)
          /\ Finish(p, Reply(400, "token already used"))
          /\ UNCHANGED attendance
        ELSE IF IsExpired(l.tokenData, l.now) THEN
          /\ \E ok \in WriteOutcomes :
               logAccess(l.foundKey, NoName, l.tokenId, FALSE, "token expired", ok)
          /\ Finish(p, Reply(400, "token expired"))
          /\ UNCHANGED attendance
        ELSE
          /\ \E ok \in WriteOutcomes :
               WriteAttendance(AttendanceMark(l.foundKey, l.now, l.tokenId), ok)
          /\ Goto(p, "vs_name", l)
          /\ UNCHANGED accessHistory
  /\ UNCHANGED <<clock, accessTokens, tokens, nextTok, shiftVars>>

\* a faulty lookup: a failing read ends the request with 500
NameLookupFailing(p, from, to) ==
  /\ At(p, from)
  /\ \E ok \in WriteOutcomes :
       /\ faults' = (IF ok THEN faults ELSE faults + 1)
       /\ IF ok THEN Goto(p, to, [loc[p] EXCEPT !.name = StudentName(loc[p].foundKey)])
                ELSE Finish(p, Reply(500, "server error"))
  /\ UNCHANGED <<clock, accessTokens, tokens, nextTok, attendance, accessHistory,
                 shiftVars>>

\* The read of students/{foundKey} for the display name; a failing read is
\* caught and the name stays null.
NameLookup(p, from, to) ==
  /\ At(p, from)
  /\ \E ok \in WriteOutcomes :
       /\ faults' = (IF ok THEN faults ELSE faults + 1)
       /\ Goto(p, to, [loc[p] EXCEPT !.name = IF ok THEN StudentName(loc[p].foundKey)
                                                    ELSE NoName])
  /\ UNCHANGED <<clock, accessTokens, tokens, nextTok, attendance, accessHistory,
                 shiftVars>>

ValidateName(p) == NameLookup(p, "vs_name", "vs_log")

\* a faulty handler: a failed audit write is answered 500
ValidateLogMasking(p) ==
  /\ At(p, "vs_log")
  /\ \E ok \in WriteOutcomes :
       /\ logAccess(loc[p].foundKey, loc[p].name, loc[p].tokenId, TRUE, "ok", ok)
       /\ IF ok THEN Finish(p, ReplyId(200, "ok", loc[p].foundKey))
                ELSE Finish(p, Reply(500, "server error"))
  /\ UNCHANGED <<clock, accessTokens, tokens, nextTok, attendance, shiftVars>>

\* The audit entry of an accepted token and the success reply.
ValidateLog(p) ==
  /\ At(p, "vs_log")
  /\ \E ok \in WriteOutcomes :
       logAccess(loc[p].foundKey, loc[p].name, loc[p].tokenId, TRUE, "ok", ok)
  /\ Finish(p, ReplyId(200, "ok", loc[p].foundKey))
  /\ UNCHANGED <<clock, accessTokens, tokens, nextTok, attendance, shiftVars>>

(* ------------------ POST /validate of src/unnamed/part_003 ------------- *)
\* a faulty update: it writes the negation of the stored flag
MarkUsedFlip(rec, now) ==
  [rec EXCEPT !.exists = TRUE, !.used = ~rec.used, !.usedAt = now]

\* tokenRef.update({ used: true, usedAt: now })
MarkUsed(rec, now) ==
  [rec EXCEPT !.exists = TRUE, !.used = TRUE, !.usedAt = now]

\* The missing-token reply, or the read of tokens/{token}.
LegacyValidateBegin(p, t) ==
  /\ Start(p, "validateLegacy", [NoReq EXCEPT !.token = t])
  /\ IF Falsy(t) THEN
       Finish(p, Reply(400, "token required"))
     ELSE IF t \notin DOMAIN tokens \/ ~tokens[t].exists THEN
       Finish(p, Reply(404, "token not found"))
     ELSE
       Goto(p, "vl_claim", [NoLoc EXCEPT !.tokenId = t, !.tokenData = tokens[t]])
  /\ UNCHANGED <<clock, tokenVars, shiftVars>>

\* now = Date.now(), the decisions on the snapshot, and the update that marks
\* the token used.
LegacyValidateClaim(p) ==
  /\ At(p, "vl_claim")
  /\ LET l == loc[p]
     IN IF IsUsed(l.tokenData) THEN
          /\ Finish(p, Reply(400, "token already used"))
          /\ UNCHANGED tokens
        ELSE IF IsExpired(l.tokenData, clock) THEN
          /\ Finish(p, Reply(400, "token expired"))
          /\ UNCHANGED tokens
        ELSE
          /\ tokens' = [tokens EXCEPT ![l.tokenId] = MarkUsed(@, clock)]
          /\ Goto(p, "vl_att", [l EXCEPT !.now = clock])
  /\ UNCHANGED <<clock, accessTokens, nextTok, attendance, accessHistory,
                 faults, shiftVars>>

\* The attendance write and the success reply; a failing write reaches the
\* handler's catch and is answered 500.
LegacyValidateAttend(p) ==
  /\ At(p, "vl_att")
  /\ LET l == loc[p]
     IN \E ok \in WriteOutcomes :
          /\ WriteAttendance(
               AttendanceMark(l.tokenData.studentUid, l.now, l.tokenId), ok)
          /\ Finish(p, IF ok THEN ReplyId(200, "ok", l.tokenData.studentUid)
                             ELSE Reply(500, "server error"))
  /\ UNCHANGED <<clock, accessTokens, tokens, nextTok, accessHistory, shiftVars>>

(* -------------------------------- time --------------------------------- *)
Tick ==
  /\ clock < MaxTime
  /\ clock' = clock + 1
  /\ UNCHANGED <<tokenVars, shiftVars, pc, op, req, loc, resp>>

(* ----------------------------- POST /verify ---------------------------- *)
\* The missing-data reply, or the read of accessTokens/{id}.
VerifyBegin(p, i, t) ==
  /\ Start(p, "verify", [NoReq EXCEPT !.id = i, !.token = t])
  /\ IF i = NoId \/ Falsy(t) THEN
       /\ \E ok \in WriteOutcomes : logAccess(i, NoName, t, FALSE, "missing data", ok)
       /\ Finish(p, Reply(400, "Faltan datos: id o token"))
     ELSE
       /\ Goto(p, "vf_log", [NoLoc EXCEPT !.foundKey = i, !.tokenId = t,
                                          !.tokenData = accessTokens[i]])
       /\ UNCHANGED <<accessHistory, faults>>
  /\ UNCHANGED <<clock, accessTokens, tokens, nextTok, attendance, shiftVars>>

\* a faulty comparison: any token of an existing record is accepted
VerifyLogAnyToken(p) ==
  /\ At(p, "vf_log")
  /\ LET l == loc[p]
     IN IF ~l.tokenData.exists THEN
          /\ \E ok \in WriteOutcomes :
               logAccess(l.foundKey, NoName, l.tokenId, FALSE, "ID no encontrado", ok)
          /\ Finish(p, Reply(404, "ID no encontrado"))
        ELSE
          /\ Goto(p, "vf_name", l)
          /\ UNCHANGED <<accessHistory, faults>>
  /\ UNCHANGED <<clock, accessTokens, tokens, nextTok, attendance, shiftVars>>

\* The comparison with the stored token; the audit entry and the reply of a
\* call that is declined.
VerifyLog(p) ==
  /\ At(p, "vf_log")
  /\ LET l == loc[p]
     IN IF ~l.tokenData.exists THEN
          /\ \E ok \in WriteOutcomes :
               logAccess(l.foundKey, NoName, l.tokenId, FALSE, "ID no encontrado", ok)
          /\ Finish(p, Reply(404, "ID no encontrado"))
        ELSE IF l.tokenData.token = l.tokenId THEN
          /\ Goto(p, "vf_name", l)
          /\ UNCHANGED <<accessHistory, faults>>
        ELSE
          /\ \E ok \in WriteOutcomes :
               logAccess(l.foundKey, NoName, l.tokenId, FALSE, "token incorrecto", ok)
          /\ Finish(p, Reply(200, "Token incorrecto"))
  /\ UNCHANGED <<clock, accessTokens, tokens, nextTok, attendance, shiftVars>>

\* the read of students/{id} of a matching /verify
VerifyName(p) == NameLookup(p, "vf_name", "vf_ok")

\* The audit entry of a matching token and the reply.
VerifyOk(p) ==
  /\ At(p, "vf_ok")
  /\ \E ok \in WriteOutcomes :
       logAccess(loc[p].foundKey, loc[p].name, loc[p].tokenId, TRUE, "ok", ok)
  /\ Finish(p, ReplyId(200, "Acceso autorizado", loc[p].foundKey))
  /\ UNCHANGED <<clock, accessTokens, tokens, nextTok, attendance, shiftVars>>

(* ------------------- identities and their access tokens ---------------- *)
\* crypto.randomBytes(12).toString("hex"): a value never handed out before
CanGenerate == nextTok <= MaxTok

\* a faulty write: the new token is generated and returned, never stored
SetNewTokenUnstored(i) ==
  /\ CanGenerate
  /\ accessTokens' = accessTokens
  /\ nextTok' = nextTok + 1

\* db.ref(`accessTokens/${id}`).set({ token, createdAt }) with a new token
SetNewToken(i) ==
  /\ CanGenerate
  /\ accessTokens' = [accessTokens EXCEPT ![i] = NewAccessToken(nextTok)]
  /\ nextTok' = nextTok + 1

\* POST /users: (after the update of students/{id}) the read of
\* accessTokens/{id}; without regenerate an existing token is returned as is.
UsersPostBegin(p, i, regenerate) ==
  /\ Start(p, "usersPost", [NoReq EXCEPT !.id = i, !.regenerate = regenerate])
  /\ IF regenerate \/ ~accessTokens[i].exists
     THEN Goto(p, "up_set", NoLoc)
     ELSE Finish(p, ReplyToken(200, "ok", i, accessTokens[i].token))
  /\ UNCHANGED <<clock, tokenVars, shiftVars>>

\* POST /users: set({ token, createdAt }) with a new token, and the reply.
UsersPostSet(p) ==
  /\ At(p, "up_set")
  /\ SetNewToken(req[p].id)
  /\ Finish(p, ReplyToken(200, "ok", req[p].id, nextTok))
  /\ UNCHANGED <<clock, tokens, attendance, accessHistory, faults, shiftVars>>

\* PUT /users/:id: with regenerate the token is replaced, otherwise read.
UsersPut(p, i, hasUpdates, regenerate) ==
  /\ Start(p, "usersPut", [NoReq EXCEPT !.id = i, !.regenerate = regenerate])
  /\ IF ~hasUpdates /\ ~regenerate THEN
       /\ Finish(p, Reply(400, "nothing to update"))
       /\ UNCHANGED <<accessTokens, nextTok>>
     ELSE IF regenerate THEN
       /\ SetNewToken(i)
       /\ Finish(p, ReplyToken(200, "ok", i, nextTok))
     ELSE
       /\ Finish(p, ReplyToken(200, "ok", i, accessTokens[i].token))
       /\ UNCHANGED <<accessTokens, nextTok>>
  /\ UNCHANGED <<clock, tokens, attendance, accessHistory, faults, shiftVars>>

\* DELETE /users/:id (and /teachers/:id, /admins/:id): the identity's node and
\* accessTokens/{id} are removed.
IdentityDelete(p, i) ==
  /\ Start(p, "delete", [NoReq EXCEPT !.id = i])
  /\ accessTokens' = [accessTokens EXCEPT ![i] = NoTok]
  /\ Finish(p, ReplyId(200, "deleted", i))
  /\ UNCHANGED <<clock, tokens, nextTok, attendance, accessHistory, faults,
                 shiftVars>>

\* ensureTokenForId, called by POST /teachers and POST /admins: the read of
\* accessTokens/{id}; an existing token is returned.
EnsureTokenRead(p, i) ==
  /\ Start(p, "ensureToken", [NoReq EXCEPT !.id = i])
  /\ IF accessTokens[i].exists /\ ~Falsy(accessTokens[i].token)
     THEN Finish(p, ReplyToken(200, "ok", i, accessTokens[i].token))
     ELSE Goto(p, "et_set", NoLoc)
  /\ UNCHANGED <<clock, tokenVars, shiftVars>>

\* ensureTokenForId: set({ token: newToken, createdAt }) and return newToken.
EnsureTokenSet(p) ==
  /\ At(p, "et_set")
  /\ SetNewToken(req[p].id)
  /\ Finish(p, ReplyToken(200, "ok", req[p].id, nextTok))
  /\ UNCHANGED <<clock, tokens, attendance, accessHistory, faults, shiftVars>>

(* ------------------------------ guard shifts --------------------------- *)
\* the notes a request may carry (0: none)
Notes == {0, 1}

\* A record of guardShifts/.  active is "true", "false" or "absent" (the
\* older handlers write no active field); endTimestamp 0 and notes 0 stand for
\* a missing / null field.
NoShift ==
  [exists |-> FALSE, guardId |-> NoGuard, startTimestamp |-> 0,
   endTimestamp |-> 0, active |-> "absent", notes |-> 0]

\* ref.set({ guardId, startTimestamp: now, active: true, createdByAdminId, notes })
NewShift(g, now, notes) ==
  [exists |-> TRUE, guardId |-> g, startTimestamp |-> now,
   endTimestamp |-> 0, active |-> "true", notes |-> notes]

\* shiftRef.set({ guardId, startTimestamp: now, createdByAdminId, notes }) of
\* the older /guard/shift/start
OldNewShift(g, now, notes) ==
  [exists |-> TRUE, guardId |-> g, startTimestamp |-> now,
   endTimestamp |-> 0, active |-> "absent", notes |-> notes]

\* notes || shift.notes || null
OrNotes(a, b) == IF a # 0 THEN a ELSE b

\* update({ endTimestamp: endTs, active: false, notes: notes || shift.notes || null })
EndedShift(rec, endTs, notes, snapNotes) ==
  [rec EXCEPT !.exists = TRUE, !.endTimestamp = endTs, !.active = "false",
              !.notes = OrNotes(notes, snapNotes)]

\* update({ endTimestamp: endTs, notes: notes || null }) of the older
\* /guard/shift/end
OldEndedShift(rec, endTs, notes) ==
  [rec EXCEPT !.exists = TRUE, !.endTimestamp = endTs, !.notes = notes]

\* .filter(s => !s.endTimestamp && s.active !== false)
IsOpen(s) == s.endTimestamp = 0 /\ s.active # "false"

\* a faulty query: the open shifts of every guard
OpenShiftsOfAll(g) ==
  {k \in ShiftIds : guardShifts[k].exists /\ IsOpen(guardShifts[k])}

\* orderByChild("guardId").equalTo(guardId), filtered to the open shifts
OpenShifts(g) ==
  {k \in ShiftIds : guardShifts[k].exists /\ guardShifts[k].guardId = g
                    /\ IsOpen(guardShifts[k])}

\* .sort((a,b) => (b.startTimestamp||0) - (a.startTimestamp||0))[0]: the open
\* shift started last; the sort is stable, so of several the first key wins.
Latest(open) ==
  Min({k \in open : \A j \in open :
         guardShifts[j].startTimestamp <= guardShifts[k].startTimestamp})

\* The check for an open shift of /guard/shift/start and
\* /admin/guard/shift/start: the read of the guard's shifts.
ShiftStartReadFrom(p, h, g, r) ==
  /\ Start(p, h, [r EXCEPT !.guard = g])
  /\ LET open == OpenShifts(g)
     IN IF open # {} /\ ~r.force
        THEN Finish(p, ReplyShift(400, "already active", Min(open)))
        ELSE Goto(p, "ss_set", [NoLoc EXCEPT !.open = open])
  /\ UNCHANGED <<clock, tokenVars, shiftVars>>

ShiftStartRead(p, h, g, force, notes) ==
  ShiftStartReadFrom(p, h, g, [NoReq EXCEPT !.force = force, !.notes = notes])

\* a faulty handler: a guardId in the body is preferred to the claim's
ActingGuardFromBody(claim, bodyGuard) ==
  IF bodyGuard # NoGuard THEN bodyGuard ELSE claim

\* const guardId = (req as any).guard.id; the body's guardId is not read
ActingGuard(claim, bodyGuard) == claim

\* what a request to a handler behind requireGuard carries besides the
\* handler's own inputs: the verified claim of guard c and a body naming b
GuardRequest(c, b) == [NoReq EXCEPT !.claim = c, !.bodyGuard = b]

\* POST /guard/shift/start by the holder of a claim of guard c, with a body
\* that names guard b.
GuardShiftStart(p, c, b, force, notes) ==
  ShiftStartReadFrom(p, "guardShiftStart", ActingGuard(c, b),
                     [GuardRequest(c, b) EXCEPT !.force = force, !.notes = notes])

\* POST /guard/shift/start: the guard is the one of the verified claim.
GuardShiftStartRead(p, g, force, notes) ==
  GuardShiftStart(p, g, NoGuard, force, notes)

\* POST /admin/guard/shift/start: the guard is named in the body.
AdminShiftStartRead(p, g, force, notes) ==
  IF g = NoGuard
  THEN /\ Start(p, "adminShiftStart", [NoReq EXCEPT !.force = force, !.notes = notes])
       /\ Finish(p, Reply(400, "guardId required"))
       /\ UNCHANGED <<clock, tokenVars, shiftVars>>
  ELSE ShiftStartRead(p, "adminShiftStart", g, force, notes)

\* db.ref("guardShifts").push()
CanPush == nextShift <= MaxShifts

\* ref = push(); now = Date.now(); ref.set({...}); the success reply.
ShiftStartSet(p) ==
  /\ At(p, "ss_set")
  /\ CanPush
  /\ guardShifts' = [guardShifts EXCEPT ![nextShift] =
                       NewShift(req[p].guard, clock, req[p].notes)]
  /\ nextShift' = nextShift + 1
  /\ Finish(p, ReplyShift(200, "ok", nextShift))
  /\ UNCHANGED <<clock, tokenVars, guardAuthorizations, guards>>

\* POST /guard/shift/start of backend/update-pinhashes.js: no check for an
\* open shift, and no active field.
OldShiftStart(p, g, notes) ==
  /\ Start(p, "oldShiftStart", [NoReq EXCEPT !.guard = g, !.notes = notes])
  /\ IF g = NoGuard THEN
       /\ Finish(p, Reply(400, "guardId required"))
       /\ UNCHANGED shiftVars
     ELSE
       /\ CanPush
       /\ guardShifts' = [guardShifts EXCEPT ![nextShift] = OldNewShift(g, clock, notes)]
       /\ nextShift' = nextShift + 1
       /\ Finish(p, ReplyShift(200, "ok", nextShift))
       /\ UNCHANGED <<guardAuthorizations, guards>>
  /\ UNCHANGED <<clock, tokenVars>>

\* The read of /guard/shift/end (owner = the claim's guard) and of
\* /admin/guard/shift/end (owner not checked: checkOwner FALSE): the named
\* shift, or the guard's open shift started last.
ShiftEndReadFrom(p, h, g, k, r, checkOwner) ==
  /\ Start(p, h, [r EXCEPT !.guard = g, !.shiftId = k])
  /\ IF k # NoShiftId THEN
       IF ~guardShifts[k].exists THEN
         Finish(p, Reply(404, "shift not found"))
       ELSE IF checkOwner /\ guardShifts[k].guardId # g THEN
         Finish(p, Reply(403, "not owner of shift"))
       ELSE IF guardShifts[k].endTimestamp # 0 THEN
         Finish(p, Reply(400, "shift already ended"))
       ELSE
         Goto(p, "se_update", [NoLoc EXCEPT !.target = k,
                                            !.notes = guardShifts[k].notes])
     ELSE IF g = NoGuard THEN
       Finish(p, Reply(400, "guardId or shiftId required"))
     ELSE IF OpenShifts(g) = {} THEN
       Finish(p, Reply(404, "no active shift found for guard"))
     ELSE
       LET target == Latest(OpenShifts(g))
       IN Goto(p, "se_update", [NoLoc EXCEPT !.target = target,
                                             !.notes = guardShifts[target].notes])
  /\ UNCHANGED <<clock, tokenVars, shiftVars>>

ShiftEndRead(p, h, g, k, notes, checkOwner) ==
  ShiftEndReadFrom(p, h, g, k, [NoReq EXCEPT !.notes = notes], checkOwner)

\* POST /guard/shift/end by the holder of a claim of guard c, with a body that
\* names guard b.
GuardShiftEnd(p, c, b, k, notes) ==
  ShiftEndReadFrom(p, "guardShiftEnd", ActingGuard(c, b), k,
                   [GuardRequest(c, b) EXCEPT !.notes = notes], TRUE)

\* a faulty handler: the owner of the shift is not compared with the claim
GuardShiftEndReadAnyOwner(p, g, k, notes) ==
  ShiftEndRead(p, "guardShiftEnd", g, k, notes, FALSE)

\* a faulty handler: a named shift is ended again when it has ended already
GuardShiftEndReadAgain(p, g, k, notes) ==
  IF k # NoShiftId /\ guardShifts[k].exists /\ guardShifts[k].guardId = g
  THEN /\ Start(p, "guardShiftEnd",
                [NoReq EXCEPT !.guard = g, !.shiftId = k, !.notes = notes])
       /\ Goto(p, "se_update", [NoLoc EXCEPT !.target = k,
                                             !.notes = guardShifts[k].notes])
       /\ UNCHANGED <<clock, tokenVars, shiftVars>>
  ELSE ShiftEndRead(p, "guardShiftEnd", g, k, notes, TRUE)

GuardShiftEndRead(p, g, k, notes) == GuardShiftEnd(p, g, NoGuard, k, notes)

AdminShiftEndRead(p, g, k, notes) ==
  ShiftEndRead(p, "adminShiftEnd", g, k, notes, FALSE)

\* endTs = Date.now(); update({ endTimestamp, active: false, notes }); reply.
ShiftEndUpdate(p) ==
  /\ At(p, "se_update")
  /\ guardShifts' = [guardShifts EXCEPT ![loc[p].target] =
                       EndedShift(@, clock, req[p].notes, loc[p].notes)]
  /\ Finish(p, ReplyShift(200, "ok", loc[p].target))
  /\ UNCHANGED <<clock, tokenVars, nextShift, guardAuthorizations, guards>>

\* POST /guard/shift/end of backend/update-pinhashes.js: the update is made
\* whatever the state of guardShifts/{shiftId}.
OldShiftEnd(p, k, notes) ==
  /\ Start(p, "oldShiftEnd", [NoReq EXCEPT !.shiftId = k, !.notes = notes])
  /\ IF k = NoShiftId THEN
       /\ Finish(p, Reply(400, "shiftId required"))
       /\ UNCHANGED guardShifts
     ELSE
       /\ guardShifts' = [guardShifts EXCEPT ![k] = OldEndedShift(@, clock, notes)]
       /\ Finish(p, ReplyShift(200, "ok", k))
  /\ UNCHANGED <<clock, tokenVars, nextShift, guardAuthorizations, guards>>

(* ------------------------------ middlewares ---------------------------- *)
\* what a request stopped by requireGuard carries: no Authorization header
\* of the form "Bearer ...", or a token jwt.verify throws on
GuardRejects == {"none", "invalid claim"}
\* what a request stopped by requireAdmin carries: no x-admin-secret header,
\* or one that differs from ADMIN_SECRET
AdminRejects == {"none", "wrong secret"}

\* requireGuard answers 401 and the handler h behind it never runs.
RequireGuardReject(p, h, auth) ==
  /\ CanStart(p)
  /\ h \in GuardHandlers
  /\ auth \in GuardRejects
  /\ op' = [op EXCEPT ![p] = h]
  /\ req' = [req EXCEPT ![p] =
               [NoReq EXCEPT !.at = clock, !.after = {q \in Procs : pc[q] = "done"},
                             !.cred = auth]]
  /\ Finish(p, Reply(401, IF auth = "none" THEN "no token" ELSE "invalid token"))
  /\ UNCHANGED <<clock, tokenVars, shiftVars>>

\* requireAdmin answers 401 and the handler h behind it never runs.
RequireAdminReject(p, h, auth) ==
  /\ CanStart(p)
  /\ h \in AdminHandlers
  /\ auth \in AdminRejects
  /\ op' = [op EXCEPT ![p] = h]
  /\ req' = [req EXCEPT ![p] =
               [NoReq EXCEPT !.at = clock, !.after = {q \in Procs : pc[q] = "done"},
                             !.cred = auth]]
  /\ Finish(p, Reply(401, "unauthorized"))
  /\ UNCHANGED <<clock, tokenVars, shiftVars>>

(* ---------------------------- /guard/authorize ------------------------- *)
\* authRef.set({ guardId, shiftId, studentId, token, authorized: true,
\* reason: "manual_override", note, timestamp, sessionId })
Override(g, i, t, now) ==
  [guardId |-> g, studentId |-> i, token |-> t, authorized |-> TRUE,
   reason |-> "manual_override", timestamp |-> now]

\* attendance/{sessionId}/{studentId}.push({ type, timestamp, guardId, authId })
OverrideMark(i, now, g, authId) ==
  [sessionId |-> "default", id |-> i, type |-> "manual_entry_by_guard",
   timestamp |-> now, tokenId |-> EmptyTok, guardId |-> g, authId |-> authId]

\* a faulty entry: it does not name the authorization record
OverrideAuditEntryUnlinked(i, t, now, authId) ==
  AuditEntry(i, NoName, t, TRUE, "manual_override", now)

\* accessHistory.push({ id, token, authorized: true, reason, timestamp,
\* guardOverrideId: authId })
OverrideAuditEntry(i, t, now, authId) ==
  [AuditEntry(i, NoName, t, TRUE, "manual_override", now) EXCEPT !.guardOverrideId = authId]

\* the error of the handler's catch
ServerError(h) == IF h = "guardAuthorize" THEN "server" ELSE "server error"

\* The input checks and the write of the authorization record.  In
\* /guard/authorize the guard is the one of the verified claim; the older
\* handler takes guardId from the body.
AuthorizeBeginFrom(p, h, g, i, t, r) ==
  /\ Start(p, h, [r EXCEPT !.guard = g, !.id = i, !.token = t])
  /\ IF g = NoGuard THEN
       /\ Finish(p, Reply(400, "guardId required"))
       /\ UNCHANGED <<guardAuthorizations, faults>>
     ELSE IF i = NoId /\ Falsy(t) THEN
       /\ Finish(p, Reply(400, "studentId or token required"))
       /\ UNCHANGED <<guardAuthorizations, faults>>
     ELSE
       \E ok \in WriteOutcomes :
         IF ok THEN
           /\ guardAuthorizations' = Append(guardAuthorizations, Override(g, i, t, clock))
           /\ faults' = faults
           /\ Goto(p, IF i # NoId THEN "ga_att" ELSE "ga_log",
                   [NoLoc EXCEPT !.now = clock,
                                 !.authId = Len(guardAuthorizations) + 1])
         ELSE
           /\ guardAuthorizations' = guardAuthorizations
           /\ faults' = faults + 1
           /\ Finish(p, Reply(500, ServerError(h)))
  /\ UNCHANGED <<clock, accessTokens, tokens, nextTok, attendance, accessHistory,
                 guardShifts, nextShift, guards>>

AuthorizeBegin(p, h, g, i, t) == AuthorizeBeginFrom(p, h, g, i, t, NoReq)

\* POST /guard/authorize by the holder of a claim of guard c, with a body that
\* names guard b.
GuardAuthorize(p, c, b, i, t) ==
  /\ c # NoGuard
  /\ AuthorizeBeginFrom(p, "guardAuthorize", ActingGuard(c, b), i, t,
                        GuardRequest(c, b))

\* a faulty handler: it declines a token whose record is used or expired
GuardAuthorizeBeginChecked(p, g, i, t) ==
  LET hits == {k \in DOMAIN accessTokens : accessTokens[k].exists /\ accessTokens[k].token = t}
      alt == {k \in DOMAIN tokens : tokens[k].exists /\ k = t}
  IN IF \/ \E k \in hits : IsUsed(accessTokens[k]) \/ IsExpired(accessTokens[k], clock)
        \/ \E k \in alt : IsUsed(tokens[k]) \/ IsExpired(tokens[k], clock)
     THEN /\ Start(p, "guardAuthorize", [NoReq EXCEPT !.guard = g, !.id = i, !.token = t])
          /\ Finish(p, Reply(400, "token not valid"))
          /\ UNCHANGED <<clock, tokenVars, shiftVars>>
     ELSE g # NoGuard /\ AuthorizeBegin(p, "guardAuthorize", g, i, t)

GuardAuthorizeBegin(p, g, i, t) == GuardAuthorize(p, g, NoGuard, i, t)

OldAuthorizeBegin(p, g, i, t) == AuthorizeBegin(p, "oldAuthorize", g, i, t)

\* if (studentId): the attendance entry; a failing push reaches the catch.
AuthorizeAttend(p) ==
  /\ At(p, "ga_att")
  /\ LET l == loc[p]
     IN \E ok \in WriteOutcomes :
          /\ WriteAttendance(OverrideMark(req[p].id, l.now, req[p].guard, l.authId), ok)
          /\ IF ok THEN Goto(p, "ga_log", l)
                   ELSE Finish(p, Reply(500, ServerError(op[p])))
  /\ UNCHANGED <<clock, accessTokens, tokens, nextTok, accessHistory, shiftVars>>

\* The audit entry of the override and the reply; a failing push reaches the
\* catch.
AuthorizeLog(p) ==
  /\ At(p, "ga_log")
  /\ LET l == loc[p]
     IN \E ok \in WriteOutcomes :
          IF ok THEN
            /\ accessHistory' = Append(accessHistory,
                 OverrideAuditEntry(req[p].id, req[p].token, l.now, l.authId))
            /\ faults' = faults
            /\ Finish(p, ReplyAuth(200, "ok", l.authId))
          ELSE
            /\ accessHistory' = accessHistory
            /\ faults' = faults + 1
            /\ Finish(p, Reply(500, ServerError(op[p])))
  /\ UNCHANGED <<clock, accessTokens, tokens, nextTok, attendance, shiftVars>>

(* ------------------------------ /guard/login --------------------------- *)
\* String(pin).trim()
PinTrim(x) == IF x < 0 THEN 0 - x ELSE x

\* bcrypt.hash(pin, 10)
Hash(x) == 10 + x

\* a faulty comparison: every PIN matches
compareAny(x, h) == TRUE

\* bcrypt.compare(pinStr, String(storedHash))
compare(x, h) == h = Hash(x)

\* guards/{id}.set({ name, pinHash: hash, createdAt })
CreatedGuard(pin) == [exists |-> TRUE, pinHash |-> Hash(pin), pin |-> NoPin]

\* a guard record that has no pinHash yet (the ones bulk-set-guards-pins.js
\* assigns a PIN to)
GuardWithoutPin == [exists |-> TRUE, pinHash |-> NoHash, pin |-> NoPin]

\* guards/ after create-guard.js has created g1 with PIN 1
ProvisionedGuards == [g \in Guards |-> IF g = "g1" THEN CreatedGuard(1) ELSE NoGuardRec]

\* guard.pinHash || guard.pin || null
StoredHash(guard) ==
  IF guard.pinHash # NoHash THEN guard.pinHash
  ELSE IF guard.pin # NoPin THEN guard.pin
  ELSE NoHash

\* POST /guards/create: the PIN is hashed as received and the record is set.
GuardsCreate(p, g, pin) ==
  /\ Start(p, "guardsCreate", [NoReq EXCEPT !.guard = g, !.pin = pin])
  /\ IF g = NoGuard \/ pin = NoPin THEN
       /\ Finish(p, Reply(400, "missing fields"))
       /\ UNCHANGED guards
     ELSE
       /\ guards' = [guards EXCEPT ![g] = CreatedGuard(pin)]
       /\ Finish(p, Reply(200, "ok"))
  /\ UNCHANGED <<clock, tokenVars, guardShifts, nextShift, guardAuthorizations>>

\* The input check of POST /guard/login and the read of guards/{id}.
LoginBegin(p, g, pin) ==
  /\ Start(p, "guardLogin", [NoReq EXCEPT !.guard = g, !.pin = pin])
  /\ IF g = NoGuard \/ pin = NoPin THEN
       Finish(p, Reply(400, "id & pin required"))
     ELSE
       Goto(p, "gl_compare", [NoLoc EXCEPT !.guard = guards[g]])
  /\ UNCHANGED <<clock, tokenVars, shiftVars>>

\* The decisions on the record read: not found, no PIN configured, the
\* comparison of the trimmed PIN with the stored hash, and the signed claim.
LoginCompare(p) ==
  /\ At(p, "gl_compare")
  /\ LET guard == loc[p].guard
         storedHash == StoredHash(guard)
     IN IF ~guard.exists THEN
          Finish(p, Reply(404, "guard not found"))
        ELSE IF storedHash = NoHash THEN
          Finish(p, Reply(500, "no pin configured for guard"))
        ELSE IF ~compare(PinTrim(req[p].pin), storedHash) THEN
          Finish(p, Reply(401, "invalid pin"))
        ELSE
          Finish(p, ReplyClaim(200, "ok", req[p].guard))
  /\ UNCHANGED <<clock, tokenVars, shiftVars>>

(* ------------------------------ GET /history -------------------------- *)
\* the default and the largest number of entries GET /history returns
HistoryDefault == 50
HistoryMax == 500

\* req.query.limit: absent, a text that is no number, an integer n, or the
\* fraction n + 1/2
NoLimit == [kind |-> "missing", n |-> 0]
TextLimit == [kind |-> "text", n |-> 0]
IntLimit(n) == [kind |-> "int", n |-> n]
FractionLimit(n) == [kind |-> "fraction", n |-> n]

\* Number(x) || 50: NaN (absent, text) and 0 are falsy
NumberOrDefault(l) ==
  IF l.kind \in {"missing", "text"} \/ (l.kind = "int" /\ l.n = 0)
  THEN IntLimit(HistoryDefault)
  ELSE l

\* a faulty limit: no upper bound
HistoryLimitUnclamped(l) == NumberOrDefault(l)

\* Math.min(Number(req.query.limit) || 50, 500)
HistoryLimit(l) ==
  LET x == NumberOrDefault(l)
  IN IF x.n >= HistoryMax THEN IntLimit(HistoryMax) ELSE x

\* limitToLast(limit) throws unless limit is a positive integer
LimitThrows(x) == x.kind = "fraction" \/ x.n <= 0

\* ({ key: k, ...val[k] })
WithKey(n, entry) == [key |-> n] @@ entry

\* the children of accessHistory/ with their keys, in key order
Keyed(history) == [n \in 1..Len(history) |-> WithKey(n, history[n])]

\* orderByChild('timestamp'): ascending timestamp, equal ones in key order
RECURSIVE OrderByTimestamp(_, _)
OrderByTimestamp(rows, t) ==
  IF t < 0 THEN <<>>
  ELSE OrderByTimestamp(rows, t - 1) \o SelectSeq(rows, LAMBDA r : r.timestamp = t)

\* limitToLast(k)
LimitToLast(rows, k) ==
  IF Len(rows) <= k THEN rows ELSE SubSeq(rows, Len(rows) - k + 1, Len(rows))

\* sort((a, b) => b.timestamp - a.timestamp) of the rows taken in key order
RECURSIVE SortDescending(_, _)
SortDescending(rows, t) ==
  IF t < 0 THEN <<>>
  ELSE SelectSeq(rows, LAMBDA r : r.timestamp = t) \o SortDescending(rows, t - 1)

\* the data of the reply: the k last children by timestamp, newest first
HistoryData(history, k) ==
  LET last == LimitToLast(OrderByTimestamp(Keyed(history), MaxTime), k)
      keys == {last[j].key : j \in 1..Len(last)}
      val == SelectSeq(Keyed(history), LAMBDA r : r.key \in keys)
  IN SortDescending(val, MaxTime)

\* GET /history: one query of the store and the reply; what limitToLast
\* throws reaches the catch.
HistoryQuery(p, l) ==
  /\ Start(p, "history", [NoReq EXCEPT !.limit = l])
  /\ LET limit == HistoryLimit(l)
     IN IF LimitThrows(limit)
        THEN Finish(p, Reply(500, "server error"))
        ELSE Finish(p, ReplyData(200, "ok", HistoryData(accessHistory, limit.n)))
  /\ UNCHANGED <<clock, tokenVars, shiftVars>>

(* ------------------------ the token specification ---------------------- *)
\* The store as the provisioning scripts leave it: identity 1 holds FirstTok
\* (POST /users, or create-tokens.js with an expiry at time 1), identity 2
\* holds none, and createToken has written tokens/{LegacyTok} for identity 1,
\* expiring at time 1.
InitProcs ==
  /\ pc = [p \in Procs |-> "idle"]
  /\ op = [p \in Procs |-> "none"]
  /\ req = [p \in Procs |-> NoReq]
  /\ loc = [p \in Procs |-> NoLoc]
  /\ resp = [p \in Procs |-> NoResp]

InitToken ==
  /\ clock = 1
  /\ \E e \in {0, 1} :
       accessTokens = [i \in Ids |-> IF i = 1
                                     THEN (IF e = 0 THEN NewAccessToken(FirstTok)
                                                    ELSE ScriptAccessToken(FirstTok, e))
                                     ELSE NoTok]
  /\ tokens = [k \in TokVals |-> IF k = LegacyTok THEN createToken(1, 1) ELSE NoTok]
  /\ nextTok = 1
  /\ attendance = <<>>
  /\ accessHistory = <<>>
  /\ faults = 0
  /\ guardShifts = [k \in ShiftIds |-> NoShift]
  /\ nextShift = 1
  /\ guardAuthorizations = <<>>
  /\ guards = ProvisionedGuards
  /\ InitProcs

NextToken ==
  \/ Tick
  \/ \E p \in Procs, t \in TokInputs : ValidateBegin(p, t)
  \/ \E p \in Procs : ValidateAlt(p)
  \/ \E p \in Procs : ValidateCheck(p)
  \/ \E p \in Procs : ValidateName(p)
  \/ \E p \in Procs : ValidateLog(p)
  \/ \E p \in Procs, t \in TokInputs : LegacyValidateBegin(p, t)
  \/ \E p \in Procs : LegacyValidateClaim(p)
  \/ \E p \in Procs : LegacyValidateAttend(p)
  \/ \E p \in Procs, i \in Ids \cup {NoId}, t \in TokInputs : VerifyBegin(p, i, t)
  \/ \E p \in Procs : VerifyLog(p)
  \/ \E p \in Procs : VerifyName(p)
  \/ \E p \in Procs : VerifyOk(p)
  \/ \E p \in Procs, i \in Ids, r \in BOOLEAN : UsersPostBegin(p, i, r)
  \/ \E p \in Procs : UsersPostSet(p)
  \/ \E p \in Procs, i \in Ids, u \in BOOLEAN, r \in BOOLEAN : UsersPut(p, i, u, r)
  \/ \E p \in Procs, i \in Ids : IdentityDelete(p, i)
  \/ \E p \in Procs, i \in Ids : EnsureTokenRead(p, i)
  \/ \E p \in Procs : EnsureTokenSet(p)

SpecToken == InitToken /\ [][NextToken]_vars

(* --------------------- POST /validate of server.ts --------------------- *)
\* the tokens presented: none, blanks, one never issued, the one of
\* accessTokens/ and the one of tokens/
ValidateToks == {EmptyTok, BlankTok, 1, FirstTok, LegacyTok}

\* Concurrent requests to the /validate of backend/src/server.ts.
NextServerValidate ==
  \/ Tick
  \/ \E p \in Procs, t \in ValidateToks : ValidateBegin(p, t)
  \/ \E p \in Procs : ValidateAlt(p)
  \/ \E p \in Procs : ValidateCheck(p)
  \/ \E p \in Procs : ValidateName(p)
  \/ \E p \in Procs : ValidateLog(p)

SpecServerValidate == InitToken /\ [][NextServerValidate]_vars

(* --------------------- the token-record writers ------------------------ *)
\* The handlers that contain a write to a record under accessTokens/ or
\* tokens/: the validate of part_003 (update of used, usedAt), POST /users and
\* PUT /users/:id (set of a new token), the DELETE handlers (remove) and
\* ensureTokenForId (set when absent).  Every other handler leaves both
\* collections unchanged.
NextTokenStore ==
  \/ Tick
  \/ \E p \in Procs, t \in TokInputs : LegacyValidateBegin(p, t)
  \/ \E p \in Procs : LegacyValidateClaim(p)
  \/ \E p \in Procs : LegacyValidateAttend(p)
  \/ \E p \in Procs, i \in Ids, r \in BOOLEAN : UsersPostBegin(p, i, r)
  \/ \E p \in Procs : UsersPostSet(p)
  \/ \E p \in Procs, i \in Ids, u \in BOOLEAN, r \in BOOLEAN : UsersPut(p, i, u, r)
  \/ \E p \in Procs, i \in Ids : IdentityDelete(p, i)
  \/ \E p \in Procs, i \in Ids : EnsureTokenRead(p, i)
  \/ \E p \in Procs : EnsureTokenSet(p)

SpecTokenStore == InitToken /\ [][NextTokenStore]_vars

(* ------------------------ the shift specification ---------------------- *)
\* The token store as above; guardShifts/ is empty, or guard g1 has started
\* one shift at time 1.
InitShift ==
  /\ clock = 1
  /\ accessTokens = [i \in Ids |-> IF i = 1 THEN NewAccessToken(FirstTok) ELSE NoTok]
  /\ tokens = [k \in TokVals |-> IF k = LegacyTok THEN createToken(1, 1) ELSE NoTok]
  /\ nextTok = 1
  /\ attendance = <<>>
  /\ accessHistory = <<>>
  /\ faults = 0
  /\ \/ guardShifts = [k \in ShiftIds |-> NoShift] /\ nextShift = 1
     \/ /\ guardShifts = [k \in ShiftIds |-> IF k = 1 THEN NewShift("g1", 1, 0)
                                                      ELSE NoShift]
        /\ nextShift = 2
  /\ guardAuthorizations = <<>>
  /\ guards = ProvisionedGuards
  /\ InitProcs

NextShift ==
  \/ Tick
  \/ \E p \in Procs, g \in Guards, f \in BOOLEAN, n \in Notes :
       GuardShiftStartRead(p, g, f, n)
  \/ \E p \in Procs, g \in Guards \cup {NoGuard}, f \in BOOLEAN, n \in Notes :
       AdminShiftStartRead(p, g, f, n)
  \/ \E p \in Procs : ShiftStartSet(p)
  \/ \E p \in Procs, g \in Guards \cup {NoGuard}, n \in Notes : OldShiftStart(p, g, n)
  \/ \E p \in Procs, g \in Guards, k \in ShiftIds \cup {NoShiftId}, n \in Notes :
       GuardShiftEndRead(p, g, k, n)
  \/ \E p \in Procs, g \in Guards \cup {NoGuard}, k \in ShiftIds \cup {NoShiftId},
        n \in Notes :
       AdminShiftEndRead(p, g, k, n)
  \/ \E p \in Procs : ShiftEndUpdate(p)
  \/ \E p \in Procs, k \in ShiftIds \cup {NoShiftId}, n \in Notes : OldShiftEnd(p, k, n)

SpecShift == InitShift /\ [][NextShift]_vars

(* ------------------------- a guard ends its shift ---------------------- *)
\* guardShifts/ after guard g1 started shift 1 at time 1 and shift 2 with
\* force, and either ended shift 2 with a note at once (one open and one ended
\* shift of g1) or started it at time 2 and left it open (two open shifts of
\* g1).  Guard g2 has no shift and no shift has key 3.
InitShiftEnd ==
  /\ accessTokens = [i \in Ids |-> IF i = 1 THEN NewAccessToken(FirstTok) ELSE NoTok]
  /\ tokens = [k \in TokVals |-> IF k = LegacyTok THEN createToken(1, 1) ELSE NoTok]
  /\ nextTok = 1
  /\ attendance = <<>>
  /\ accessHistory = <<>>
  /\ faults = 0
  /\ \/ /\ clock = 1
        /\ guardShifts = [k \in ShiftIds |->
                            IF k = 1 THEN NewShift("g1", 1, 0)
                            ELSE IF k = 2 THEN EndedShift(NewShift("g1", 1, 0), 1, 1, 0)
                            ELSE NoShift]
     \/ /\ clock = 2
        /\ guardShifts = [k \in ShiftIds |->
                            IF k = 1 THEN NewShift("g1", 1, 0)
                            ELSE IF k = 2 THEN NewShift("g1", 2, 1)
                            ELSE NoShift]
  /\ nextShift = 3
  /\ guardAuthorizations = <<>>
  /\ guards = ProvisionedGuards
  /\ InitProcs

\* POST /guard/shift/end of server.ts, called by guards holding a claim.
NextShiftEnd ==
  \/ Tick
  \/ \E p \in Procs, g \in Guards, k \in ShiftIds \cup {NoShiftId}, n \in Notes :
       GuardShiftEndRead(p, g, k, n)
  \/ \E p \in Procs : ShiftEndUpdate(p)

SpecShiftEnd == InitShiftEnd /\ [][NextShiftEnd]_vars

(* ---------------- guard claims, admin secrets and overrides ------------ *)
\* the handlers behind requireAdmin that write guardShifts/ or
\* guardAuthorizations/
AdminGuardHandlers ==
  {"adminShiftStart", "adminShiftEnd", "oldShiftStart", "oldShiftEnd", "oldAuthorize"}

\* the identity and the token a manual override may name
OverrideIds == {NoId, 1}
OverrideToks == {EmptyTok, FirstTok}

\* Requests with and without credentials to the handlers that start shifts
\* and record manual overrides.
NextGuardAccess ==
  \/ Tick
  \/ \E p \in Procs, h \in GuardHandlers, a \in GuardRejects :
       RequireGuardReject(p, h, a)
  \/ \E p \in Procs, h \in AdminGuardHandlers, a \in AdminRejects :
       RequireAdminReject(p, h, a)
  \/ \E p \in Procs, g \in Guards, f \in BOOLEAN : GuardShiftStartRead(p, g, f, 0)
  \/ \E p \in Procs, g \in Guards \cup {NoGuard}, f \in BOOLEAN :
       AdminShiftStartRead(p, g, f, 0)
  \/ \E p \in Procs : ShiftStartSet(p)
  \/ \E p \in Procs, g \in Guards, i \in OverrideIds, t \in OverrideToks :
       GuardAuthorizeBegin(p, g, i, t)
  \/ \E p \in Procs, g \in Guards \cup {NoGuard}, i \in OverrideIds,
        t \in OverrideToks :
       OldAuthorizeBegin(p, g, i, t)
  \/ \E p \in Procs : AuthorizeAttend(p)
  \/ \E p \in Procs : AuthorizeLog(p)

SpecGuardAccess == InitShift /\ [][NextGuardAccess]_vars

(* ------------------------- manual overrides alone ---------------------- *)
\* Identity 1 holds FirstTok, which create-tokens.js lets expire after time
\* 1; the token of tokens/{LegacyTok} has been used by a /validate call.  The
\* overrides are made at time 1 or, FirstTok having expired, at time 2.
InitAuthorize ==
  /\ clock \in {1, 2}
  /\ accessTokens = [i \in Ids |-> IF i = 1 THEN ScriptAccessToken(FirstTok, 1)
                                            ELSE NoTok]
  /\ tokens = [k \in TokVals |-> IF k = LegacyTok THEN MarkUsed(createToken(1, 1), 1)
                                                  ELSE NoTok]
  /\ nextTok = 1
  /\ attendance = <<>>
  /\ accessHistory = <<>>
  /\ faults = 0
  /\ guardShifts = [k \in ShiftIds |-> NoShift]
  /\ nextShift = 1
  /\ guardAuthorizations = <<>>
  /\ guards = ProvisionedGuards
  /\ InitProcs

\* the tokens an override may name: none, blanks (which no record holds),
\* an expiring one and a used one
AuthorizeToks == {EmptyTok, BlankTok, FirstTok, LegacyTok}

\* POST /guard/authorize of server.ts, called with the claim of guard g1.
NextAuthorize ==
  \/ \E p \in Procs, i \in OverrideIds, t \in AuthorizeToks :
       GuardAuthorizeBegin(p, "g1", i, t)
  \/ \E p \in Procs : AuthorizeAttend(p)
  \/ \E p \in Procs : AuthorizeLog(p)

SpecAuthorize == InitAuthorize /\ [][NextAuthorize]_vars

(* --------------------------- the audit history ------------------------- *)
\* The handlers that write accessHistory/ (POST /validate and POST /verify
\* through logAccess, POST /guard/authorize directly) and DELETE /users/:id,
\* all about identity 1 and its token.
NextAudit ==
  \/ \E p \in Procs, t \in {EmptyTok, FirstTok} : ValidateBegin(p, t)
  \/ \E p \in Procs : ValidateAlt(p)
  \/ \E p \in Procs : ValidateCheck(p)
  \/ \E p \in Procs : ValidateName(p)
  \/ \E p \in Procs : ValidateLog(p)
  \/ \E p \in Procs, t \in {FirstTok, LegacyTok} : VerifyBegin(p, 1, t)
  \/ \E p \in Procs : VerifyLog(p)
  \/ \E p \in Procs : VerifyName(p)
  \/ \E p \in Procs : VerifyOk(p)
  \/ \E p \in Procs : GuardAuthorizeBegin(p, "g1", 1, EmptyTok)
  \/ \E p \in Procs : AuthorizeAttend(p)
  \/ \E p \in Procs : AuthorizeLog(p)
  \/ \E p \in Procs : IdentityDelete(p, 1)

SpecAudit == InitToken /\ [][NextAudit]_vars

(* ------------------------- queries of the history --------------------- *)
\* the numbers of entries accessHistory/ holds when it is queried
HistoryLens == {2, HistoryDefault + 1, HistoryMax + 1}

\* the limits a query may carry
LimitInputs ==
  {NoLimit, TextLimit, FractionLimit(1)} \cup
  {IntLimit(n) : n \in {0 - 1, 0, 1, 2, HistoryMax, HistoryMax + 1}}

\* accessHistory/ after len declined /validate calls, the first half logged
\* at time 1 and the rest at time 2, or with timestamps that do not follow
\* the push order.
InitHistory ==
  /\ clock = 2
  /\ accessTokens = [i \in Ids |-> IF i = 1 THEN NewAccessToken(FirstTok) ELSE NoTok]
  /\ tokens = [k \in TokVals |-> NoTok]
  /\ nextTok = 1
  /\ attendance = <<>>
  /\ \E len \in HistoryLens, alternate \in BOOLEAN :
       accessHistory =
         [n \in 1..len |->
            AuditEntry(NoId, NoName, LegacyTok, FALSE, "token not found",
                       IF alternate THEN 1 + (n % 2)
                       ELSE IF 2 * n <= len THEN 1 ELSE 2)]
  /\ faults = 0
  /\ guardShifts = [k \in ShiftIds |-> NoShift]
  /\ nextShift = 1
  /\ guardAuthorizations = <<>>
  /\ guards = ProvisionedGuards
  /\ InitProcs

NextHistory == \E p \in Procs, l \in LimitInputs : HistoryQuery(p, l)

SpecHistory == InitHistory /\ [][NextHistory]_vars

(* ------------------------------ guard logins -------------------------- *)
\* guards/ as provisioned; g2 has no record, or one that was imported
\* without a PIN.
InitLogin ==
  /\ clock = 1
  /\ accessTokens = [i \in Ids |-> IF i = 1 THEN NewAccessToken(FirstTok) ELSE NoTok]
  /\ tokens = [k \in TokVals |-> NoTok]
  /\ nextTok = 1
  /\ attendance = <<>>
  /\ accessHistory = <<>>
  /\ faults = 0
  /\ guardShifts = [k \in ShiftIds |-> NoShift]
  /\ nextShift = 1
  /\ guardAuthorizations = <<>>
  /\ guards \in {ProvisionedGuards,
                 [ProvisionedGuards EXCEPT !["g2"] = GuardWithoutPin]}
  /\ InitProcs

\* POST /guard/login, and POST /guards/create giving g2 a PIN.
NextLogin ==
  \/ \E p \in Procs, g \in Guards \cup {NoGuard}, pin \in PinInputs :
       LoginBegin(p, g, pin)
  \/ \E p \in Procs : LoginCompare(p)
  \/ \E p \in Procs, pin \in {NoPin, 2, PaddedPin(2)} : GuardsCreate(p, "g2", pin)

SpecLogin == InitLogin /\ [][NextLogin]_vars

(* ----------------------- the display-name lookup ----------------------- *)
\* POST /validate of server.ts with the two stored tokens, the read of
\* students/{id} being one of the store operations that may fail.
NextValidateName ==
  \/ \E p \in Procs, t \in {FirstTok, LegacyTok} : ValidateBegin(p, t)
  \/ \E p \in Procs : ValidateAlt(p)
  \/ \E p \in Procs : ValidateCheck(p)
  \/ \E p \in Procs : ValidateName(p)
  \/ \E p \in Procs : ValidateLog(p)

SpecValidateName == InitToken /\ [][NextValidateName]_vars

(* ------------------------- expiry and the clock ------------------------ *)
\* POST /validate of server.ts with the two stored tokens while time passes
\* between the steps of a call; the token of accessTokens/1 expires at time 1
\* or never.
NextExpiry ==
  \/ Tick
  \/ \E p \in Procs, t \in {FirstTok, LegacyTok} : ValidateBegin(p, t)
  \/ \E p \in Procs : ValidateAlt(p)
  \/ \E p \in Procs : ValidateCheck(p)
  \/ \E p \in Procs : ValidateName(p)
  \/ \E p \in Procs : ValidateLog(p)

SpecExpiry == InitToken /\ [][NextExpiry]_vars

(* ------------------- regeneration and deletion of a token -------------- *)
\* the values presented: the token identity 1 starts with and the first one
\* a regeneration hands out
RegenerateToks == {FirstTok, 1}

\* Identity 1 has its token regenerated (POST /users, PUT /users/:id) or is
\* deleted, while /validate and /verify of server.ts are called with its
\* tokens.
NextRegenerate ==
  \/ \E p \in Procs : UsersPostBegin(p, 1, TRUE)
  \/ \E p \in Procs : UsersPostSet(p)
  \/ \E p \in Procs : UsersPut(p, 1, FALSE, TRUE)
  \/ \E p \in Procs : IdentityDelete(p, 1)
  \/ \E p \in Procs, t \in RegenerateToks : ValidateBegin(p, t)
  \/ \E p \in Procs : ValidateAlt(p)
  \/ \E p \in Procs : ValidateCheck(p)
  \/ \E p \in Procs : ValidateName(p)
  \/ \E p \in Procs : ValidateLog(p)
  \/ \E p \in Procs, t \in RegenerateToks : VerifyBegin(p, 1, t)
  \/ \E p \in Procs : VerifyLog(p)
  \/ \E p \in Procs : VerifyName(p)
  \/ \E p \in Procs : VerifyOk(p)

SpecRegenerate == InitToken /\ [][NextRegenerate]_vars

(* ------------------- the claim and the body's guardId ------------------ *)
\* the guardId the bodies carry: the caller's own for a claim of g1, another
\* guard's for a claim of g2
BodyGuards == {"g1"}

\* The three handlers behind requireGuard, called by the holders of claims
\* of g1 and of g2 with bodies that name g1; guardShifts/ is empty or holds
\* one open shift of g1.
NextClaim ==
  \/ \E p \in Procs, c \in Guards, b \in BodyGuards, f \in BOOLEAN :
       GuardShiftStart(p, c, b, f, 0)
  \/ \E p \in Procs : ShiftStartSet(p)
  \/ \E p \in Procs, c \in Guards, b \in BodyGuards, k \in {NoShiftId, 1} :
       GuardShiftEnd(p, c, b, k, 0)
  \/ \E p \in Procs : ShiftEndUpdate(p)
  \/ \E p \in Procs, c \in Guards, b \in BodyGuards : GuardAuthorize(p, c, b, 1, EmptyTok)
  \/ \E p \in Procs : AuthorizeAttend(p)
  \/ \E p \in Procs : AuthorizeLog(p)

SpecClaim == InitShift /\ [][NextClaim]_vars

(* ------------------------------ POST /verify --------------------------- *)
\* POST /verify, while identity 1 may be deleted.
NextVerify ==
  \/ \E p \in Procs, i \in Ids \cup {NoId}, t \in {EmptyTok, FirstTok, LegacyTok} :
       VerifyBegin(p, i, t)
  \/ \E p \in Procs : VerifyLog(p)
  \/ \E p \in Procs : VerifyName(p)
  \/ \E p \in Procs : VerifyOk(p)
  \/ \E p \in Procs : IdentityDelete(p, 1)

SpecVerify == InitToken /\ [][NextVerify]_vars

(* --------------------------- the whole program ------------------------- *)
Init == InitToken

Next == NextToken \/ NextShift

Spec == Init /\ [][Next]_vars

(* ------------------------------- properties ---------------------------- *)
Done(p) == pc[p] = "done"
Started == {p \in Procs : pc[p] # "idle"}
AllDone == \A p \in Procs : Done(p)
Success(p) == Done(p) /\ resp[p].status = 200 /\ resp[p].body = "ok"

\* the requests handled by handler h that present token t
CallsOf(h, t) == {p \in Started : op[p] = h /\ req[p].token = t}

\* every request so far was a call of handler h presenting token t, made
\* while the token was unexpired, and no store write has failed
OnlyCalls(h, t) ==
  /\ Started = CallsOf(h, t)
  /\ clock = 1
  /\ faults = 0

MarksOf(t) == {n \in 1..Len(attendance) : attendance[n].tokenId = t}

\* C1: of N concurrent ValidateToken calls presenting one unused, unexpired
\* token, exactly one returns success and the others are declined.
C1_ExactlyOneSuccess ==
  \A h \in {"validate", "validateLegacy"} :
    LET t == IF h = "validate" THEN FirstTok ELSE LegacyTok
    IN (AllDone /\ OnlyCalls(h, t)) =>
         /\ Cardinality({p \in Procs : Success(p)}) = 1
         /\ \A p \in Procs : ~Success(p) => resp[p].status # 200

\* C2: after a ValidateToken call has returned success, the token's record
\* has used = TRUE and every later call with the same token is declined as
\* already used.
C2_ConsumedStaysConsumed ==
  \A p \in Procs :
    (Success(p) /\ \A q \in Started : op[q] \in {"validate", "validateLegacy"}
                                      /\ op[q] = op[p]) =>
      /\ (op[p] = "validate" => accessTokens[resp[p].id].used)
      /\ (op[p] = "validateLegacy" => tokens[req[p].token].used)
      /\ \A q \in Procs :
           (Done(q) /\ p \in req[q].after /\ req[q].token = req[p].token) =>
             resp[q].body = "token already used"

\* C4: a token whose expiresAt is earlier than the time of the call is
\* declined as expired, whatever its used flag.
C4_ExpiryDominates ==
  \A p \in Procs :
    /\ (Done(p) /\ op[p] = "validateLegacy" /\ req[p].token = LegacyTok
        /\ tokens[LegacyTok].expiresAt # 0
        /\ req[p].at > tokens[LegacyTok].expiresAt)
         => resp[p].body = "token expired"
    /\ (Done(p) /\ op[p] = "validate" /\ req[p].token = FirstTok
        /\ Started \subseteq CallsOf("validate", FirstTok)
        /\ accessTokens[1].expiresAt # 0
        /\ req[p].at > accessTokens[1].expiresAt)
         => resp[p].body = "token expired"

\* C5: a token record whose used flag is true never has it false or absent
\* again, whatever operation runs.
C5_UsedMonotonic ==
  [][ /\ \A k \in TokVals : tokens[k].used => tokens'[k].used
      /\ \A i \in Ids : accessTokens[i].used => accessTokens'[i].used ]_vars

\* C5 witness: a token has been marked used and, after that, a token has been
\* regenerated.
C5_Witness ==
  \E p, q \in Procs :
    /\ Success(p) /\ op[p] = "validateLegacy" /\ tokens[req[p].token].used
    /\ Done(q) /\ op[q] \in {"usersPost", "usersPut"} /\ req[q].regenerate
    /\ resp[q].status = 200 /\ p \in req[q].after

\* C6: every ValidateToken call, accepted or declined, appends exactly one
\* AuditEntry: N calls leave N entries.
C6_OneAuditEntryPerCall ==
  (AllDone /\ faults = 0
   /\ \A p \in Procs : op[p] \in {"validate", "validateLegacy"}) =>
     Len(accessHistory) = NumCalls

\* C7: for a single-use token without expiresAt, the AttendanceMarks of
\* concurrent ValidateToken calls are as many as the successes, and exactly 1.
C7_OneAttendanceMark ==
  (AllDone /\ OnlyCalls("validate", FirstTok) /\ accessTokens[1].expiresAt = 0) =>
     /\ Cardinality(MarksOf(FirstTok)) = Cardinality({p \in Procs : Success(p)})
     /\ Cardinality(MarksOf(FirstTok)) = 1

StartOps == {"guardShiftStart", "adminShiftStart"}
EndOps == {"guardShiftEnd", "adminShiftEnd"}
OldOps == {"oldShiftStart", "oldShiftEnd"}

\* the shifts of guard g
ShiftsOf(g) == {k \in ShiftIds : guardShifts[k].exists /\ guardShifts[k].guardId = g}

\* C3: after any interleaving of StartShift calls without force, at most one
\* shift of a guard is Active, and of the calls racing on a guard without a
\* shift exactly one succeeds and the others are answered Conflict.
C3_ShiftExclusivity ==
  (\A p \in Started : op[p] \in StartOps /\ ~req[p].force) =>
    \A g \in Guards :
      /\ Cardinality(OpenShifts(g)) <= 1
      /\ LET calls == {p \in Procs : req[p].guard = g}
             won == {p \in calls : resp[p].status = 200}
         IN (AllDone /\ calls # {} /\ Cardinality(ShiftsOf(g)) = Cardinality(won)) =>
              /\ Cardinality(won) = 1
              /\ \A p \in calls \ won : resp[p].body = "already active"

\* C8: StartShift without force, called while the guard has an Active shift,
\* is answered Conflict with that shift and creates no shift record.
C8_ConflictOnActiveShift ==
  [][ \A p \in Procs :
        (/\ pc[p] = "idle"
         /\ op'[p] \in StartOps \cup {"oldShiftStart"}
         /\ ~req'[p].force
         /\ req'[p].guard \in Guards
         /\ OpenShifts(req'[p].guard) # {}) =>
           /\ resp'[p].status = 400
           /\ resp'[p].body = "already active"
           /\ resp'[p].shiftId \in OpenShifts(req'[p].guard)
           /\ guardShifts' = guardShifts ]_vars

\* C9: a guard has two or more Active shifts only if some StartShift call for
\* that guard was made with force.
C9_TwoActiveOnlyByForce ==
  (\A p \in Started : op[p] \notin OldOps) =>
    \A g \in Guards :
      Cardinality(OpenShifts(g)) >= 2 =>
        \E p \in Started : op[p] \in StartOps /\ req[p].guard = g /\ req[p].force

\* C10: a shift is ended at most once and never reopened: once endTimestamp
\* is set no StartShift / EndShift changes it or makes the shift Active, and
\* two EndShift calls on one shift do not both succeed.
C10_EndedOnce ==
  [][ (\A p \in Procs : op'[p] \notin OldOps) =>
        /\ \A k \in ShiftIds :
             (guardShifts[k].exists /\ guardShifts[k].endTimestamp # 0) =>
               /\ guardShifts'[k].endTimestamp = guardShifts[k].endTimestamp
               /\ ~IsOpen(guardShifts'[k])
        /\ \A p, q \in Procs :
             (p # q /\ op'[p] \in EndOps /\ op'[q] \in EndOps
              /\ resp'[p].status = 200 /\ resp'[q].status = 200) =>
               resp'[p].shiftId # resp'[q].shiftId ]_vars

\* the Active shifts of guard g: started, not ended, not marked inactive
ActiveShiftsOf(g) ==
  {k \in ShiftsOf(g) : guardShifts[k].endTimestamp = 0
                       /\ guardShifts[k].active # "false"}

\* the step in which request p enters the handler of /guard/shift/end or
\* /admin/guard/shift/end
EndCalled(p) == pc[p] = "idle" /\ pc'[p] # "idle" /\ op'[p] \in EndOps

\* C11: EndShift naming a shift of another guard than the one of the caller's
\* claim is answered Unauthorized (403, not owner) and no shift record changes.
C11_NotOwnerRejected ==
  [][ \A p \in Procs :
        LET k == req'[p].shiftId
        IN (/\ EndCalled(p)
            /\ req'[p].cred = "guard claim"
            /\ k # NoShiftId
            /\ guardShifts[k].exists
            /\ guardShifts[k].guardId # req'[p].guard) =>
              /\ pc'[p] = "done"
              /\ resp'[p].status = 403
              /\ resp'[p].body = "not owner of shift"
              /\ guardShifts' = guardShifts ]_vars

\* C11 witness: a guard has named a shift of another guard and got 403.
C11_Witness ==
  \E p \in Procs :
    /\ Done(p) /\ op[p] = "guardShiftEnd" /\ resp[p].status = 403
    /\ req[p].shiftId # NoShiftId
    /\ guardShifts[req[p].shiftId].exists
    /\ guardShifts[req[p].shiftId].guardId # req[p].guard

\* C12: EndShift without shiftId ends exactly one shift, the Active shift of
\* the calling guard with the greatest startTimestamp, and changes no other
\* shift record.
C12_EndsLatestActive ==
  [][ \A p \in Procs :
        (/\ pc[p] = "se_update" /\ pc'[p] = "done"
         /\ req[p].shiftId = NoShiftId
         /\ resp'[p].status = 200) =>
           LET k == resp'[p].shiftId
               open == ActiveShiftsOf(req[p].guard)
           IN /\ k \in open
              /\ \A j \in open :
                   guardShifts[j].startTimestamp <= guardShifts[k].startTimestamp
              /\ guardShifts'[k].endTimestamp # 0
              /\ guardShifts'[k].active = "false"
              /\ \A j \in ShiftIds \ {k} : guardShifts'[j] = guardShifts[j] ]_vars

\* C13: EndShift without shiftId for a guard that has no Active shift, and
\* EndShift naming a shift that does not exist, are answered NotFound (404)
\* and change no record.
C13_NothingToEndIsNotFound ==
  [][ \A p \in Procs :
        LET k == req'[p].shiftId
            g == req'[p].guard
        IN (/\ EndCalled(p)
            /\ req'[p].cred \in {"guard claim", "admin secret"}
            /\ \/ k # NoShiftId /\ ~guardShifts[k].exists
               \/ k = NoShiftId /\ g \in Guards /\ ActiveShiftsOf(g) = {}) =>
              /\ pc'[p] = "done"
              /\ resp'[p].status = 404
              /\ guardShifts' = guardShifts
              /\ nextShift' = nextShift ]_vars

\* C13 witness: both NotFound answers have been given.
C13_Witness ==
  \E p, q \in Procs :
    /\ Done(p) /\ op[p] \in EndOps /\ resp[p].status = 404
    /\ resp[p].body = "no active shift found for guard"
    /\ Done(q) /\ op[q] \in EndOps /\ resp[q].status = 404
    /\ resp[q].body = "shift not found"

\* C14: EndShift naming a shift of the caller that has already ended is
\* rejected (400, shift already ended) and the shift's endTimestamp, active
\* flag and notes stay as they are.
C14_AlreadyEndedRejected ==
  [][ \A p \in Procs :
        LET k == req'[p].shiftId
        IN (/\ EndCalled(p)
            /\ req'[p].cred = "guard claim"
            /\ k # NoShiftId
            /\ guardShifts[k].exists
            /\ guardShifts[k].guardId = req'[p].guard
            /\ guardShifts[k].endTimestamp # 0) =>
              /\ pc'[p] = "done"
              /\ resp'[p].status = 400
              /\ resp'[p].body = "shift already ended"
              /\ guardShifts' = guardShifts ]_vars

\* C14 witness: a guard has named its own ended shift, at a later time and
\* with a note, and got 400.
C14_Witness ==
  \E p \in Procs :
    /\ Done(p) /\ op[p] = "guardShiftEnd" /\ resp[p].body = "shift already ended"
    /\ guardShifts[req[p].shiftId].guardId = req[p].guard
    /\ req[p].at > guardShifts[req[p].shiftId].endTimestamp
    /\ req[p].notes # guardShifts[req[p].shiftId].notes

\* C15: the shift and override records change only in steps of requests that
\* carry a valid guard claim.
C15_OnlyGuardClaimChangesState ==
  [][ (guardShifts' # guardShifts \/ guardAuthorizations' # guardAuthorizations) =>
        \E p \in Procs : pc'[p] # pc[p] /\ req'[p].cred = "guard claim" ]_vars

AuthorizeOps == {"guardAuthorize", "oldAuthorize"}

\* the Authorize requests whose input passed the handler's checks
Authorizing == {q \in Started : /\ op[q] \in AuthorizeOps
                                /\ req[q].cred \in {"guard claim", "admin secret"}
                                /\ req[q].guard # NoGuard
                                /\ (req[q].id # NoId \/ req[q].token # EmptyTok)}

\* C20: an Authorize call whose AuthorizationOverride record (and attendance
\* entry) was written reports success with the authId, whether or not the
\* write of its AuditEntry failed.
C20_OverrideOutcomeNotMasked ==
  (/\ AllDone
   /\ Len(guardAuthorizations) = Cardinality(Authorizing)
   /\ Len(attendance) = Cardinality({q \in Authorizing : req[q].id # NoId})) =>
     \A q \in Authorizing :
       resp[q].status = 200 /\ resp[q].authId \in 1..Len(guardAuthorizations)

\* token value t is not blank and no record of accessTokens/ or tokens/ has
\* it as its 'token' child
Unresolved(t) ==
  /\ t \in TokVals
  /\ \A i \in Ids : ~(accessTokens[i].exists /\ accessTokens[i].token = t)
  /\ \A k \in TokVals : ~(tokens[k].exists /\ tokens[k].token = t)

\* the entry last pushed to accessHistory/ by the step
Pushed == accessHistory'[Len(accessHistory')]

\* C16: ValidateToken (server.ts) with a token value that resolves to no
\* record is declined not_found (404), appends one AuditEntry with
\* authorized = FALSE when the store accepts the write, creates no
\* AttendanceMark and changes no token record.
C16_NotFoundDeclined ==
  [][ \A p \in Procs :
        (/\ pc'[p] # pc[p]
         /\ op'[p] = "validate"
         /\ Unresolved(req'[p].token)) =>
           /\ attendance' = attendance
           /\ accessTokens' = accessTokens
           /\ tokens' = tokens
           /\ IF pc'[p] = "done"
              THEN /\ resp'[p].status = 404
                   /\ resp'[p].body = "token not found"
                   /\ faults' = faults =>
                        /\ Len(accessHistory') = Len(accessHistory) + 1
                        /\ SubSeq(accessHistory', 1, Len(accessHistory)) = accessHistory
                        /\ ~Pushed.authorized
                        /\ Pushed.reason = "token not found"
                        /\ Pushed.token = req'[p].token
              ELSE accessHistory' = accessHistory ]_vars

\* C16 witness: an unknown token has been declined and its entry written.
C16_Witness ==
  \E p \in Procs :
    /\ Done(p) /\ op[p] = "validate" /\ Unresolved(req[p].token)
    /\ resp[p].status = 404
    /\ \E n \in 1..Len(accessHistory) :
         accessHistory[n].reason = "token not found"
         /\ accessHistory[n].token = req[p].token

\* C17: every ValidateToken call that returned success has appended one
\* AttendanceMark and one AuditEntry with authorized = TRUE and reason "ok",
\* and returned the identity of the resolved token record.
C17_SuccessLeavesMarkAndEntry ==
  (/\ faults = 0
   /\ \A p \in Started : Done(p) /\ op[p] \in {"validate", "validateLegacy"}) =>
     LET won == {p \in Procs : Success(p)}
         oks == {n \in 1..Len(accessHistory) :
                   accessHistory[n].authorized /\ accessHistory[n].reason = "ok"}
     IN /\ Len(attendance) = Cardinality(won)
        /\ Cardinality(oks) = Cardinality(won)
        /\ \A p \in won : resp[p].id = 1

\* C18: ValidateToken (server.ts) with an empty or white-space-only token is
\* declined as missing input in the step that receives it, before any lookup:
\* no AttendanceMark is created and no token record changes.
C18_BlankTokenDeclined ==
  [][ \A p \in Procs :
        (/\ pc[p] = "idle" /\ pc'[p] # "idle"
         /\ op'[p] = "validate"
         /\ req'[p].token \in {EmptyTok, BlankTok}) =>
           /\ pc'[p] = "done"
           /\ resp'[p].status = 400
           /\ resp'[p].body = "token required"
           /\ attendance' = attendance
           /\ accessTokens' = accessTokens
           /\ tokens' = tokens ]_vars

\* C18 witness: a white-space-only token and an empty token have been declined.
C18_Witness ==
  \E p, q \in Procs :
    /\ Done(p) /\ op[p] = "validate" /\ req[p].token = BlankTok
    /\ resp[p].body = "token required"
    /\ Done(q) /\ op[q] = "validate" /\ req[q].token = EmptyTok
    /\ resp[q].body = "token required"

\* the identities whose accessTokens/ record holds token t, unused and not
\* expired at time now
Claimable(t, now) ==
  {i \in Ids : /\ accessTokens[i].exists /\ accessTokens[i].token = t
               /\ ~accessTokens[i].used
               /\ (accessTokens[i].expiresAt = 0 \/ now <= accessTokens[i].expiresAt)}

\* C19: a ValidateToken call (server.ts) that presents a valid token reports
\* success with the identity, also when the write of its AuditEntry failed.
C19_AuditFailureNotMasking ==
  \A p \in Procs :
    (Done(p) /\ op[p] = "validate" /\ req[p].token \in TokVals
     /\ Claimable(req[p].token, req[p].at) # {}) =>
       /\ resp[p].status = 200
       /\ resp[p].body = "ok"
       /\ resp[p].id \in Claimable(req[p].token, req[p].at)

\* C19 witness: a call has reported success, its attendance entry is written
\* and the write of its audit entry has failed.
C19_Witness ==
  \E p \in Procs :
    /\ Success(p) /\ op[p] = "validate"
    /\ Started = {p}
    /\ faults = 1
    /\ Len(attendance) = 1
    /\ Len(accessHistory) = 0

\* the finished /guard/authorize calls that reported success
Overridden == {p \in Procs : Done(p) /\ op[p] = "guardAuthorize" /\ resp[p].status = 200}

\* the attendance entries and the audit entries that carry authId a
OverrideMarksOf(a) ==
  {n \in 1..Len(attendance) : /\ attendance[n].type = "manual_entry_by_guard"
                               /\ attendance[n].authId = a}
OverrideEntriesOf(a) ==
  {n \in 1..Len(accessHistory) : accessHistory[n].guardOverrideId = a}

\* C21: an Authorize call that carries neither a studentId nor a token is
\* answered 400 "studentId or token required" at once, and the step writes no
\* guardAuthorizations record, no attendance entry and no accessHistory entry.
C21_NeitherInputRejected ==
  [][\A p \in Procs :
       (/\ pc[p] = "idle" /\ pc'[p] # "idle"
        /\ op'[p] = "guardAuthorize"
        /\ req'[p].id = NoId /\ req'[p].token = EmptyTok) =>
         /\ pc'[p] = "done"
         /\ resp'[p].status = 400
         /\ resp'[p].body = "studentId or token required"
         /\ resp'[p].authId = 0
         /\ guardAuthorizations' = guardAuthorizations
         /\ attendance' = attendance
         /\ accessHistory' = accessHistory]_vars

\* an Authorize call without studentId and token has been declined and the
\* three collections are still empty
C21_Witness ==
  \E p \in Procs :
    /\ Done(p) /\ op[p] = "guardAuthorize"
    /\ req[p].id = NoId /\ req[p].token = EmptyTok
    /\ resp[p].status = 400
    /\ guardAuthorizations = <<>> /\ attendance = <<>> /\ accessHistory = <<>>

\* C22: every successful Authorize call has its own guardAuthorizations
\* record, holding the call's guard, studentId and token; exactly one
\* accessHistory entry carries that record's id as guardOverrideId; exactly
\* one attendance entry carries it when the call named a studentId and none
\* when it did not.
C22_OneOverrideOneEntryOneMark ==
  /\ \A p \in Overridden :
       LET a == resp[p].authId
       IN /\ a \in 1..Len(guardAuthorizations)
          /\ guardAuthorizations[a].guardId = req[p].guard
          /\ guardAuthorizations[a].studentId = req[p].id
          /\ guardAuthorizations[a].token = req[p].token
          /\ Cardinality(OverrideEntriesOf(a)) = 1
          /\ \A n \in OverrideEntriesOf(a) :
               /\ accessHistory[n].id = req[p].id
               /\ accessHistory[n].token = req[p].token
          /\ Cardinality(OverrideMarksOf(a)) = (IF req[p].id # NoId THEN 1 ELSE 0)
          /\ \A n \in OverrideMarksOf(a) : attendance[n].id = req[p].id
  /\ \A p, q \in Overridden : p # q => resp[p].authId # resp[q].authId
  /\ Len(accessHistory) = Cardinality(Overridden)

\* two calls have succeeded, one with a studentId and one with a token only
C22_Witness ==
  \E p, q \in Overridden :
    /\ req[p].id # NoId /\ req[q].id = NoId
    /\ Len(guardAuthorizations) = 2 /\ Len(attendance) = 1 /\ Len(accessHistory) = 2

\* the request of p named a token value, and no store write has failed
NamedToken(p, t) ==
  /\ Done(p) /\ op[p] = "guardAuthorize" /\ req[p].token = t

\* C23: every record and every audit entry Authorize writes says
\* authorized = true, reason manual_override; a call with a studentId or a
\* token succeeds whatever the state of the token it names (used, expired,
\* never issued) unless a store write fails; and no step of Authorize
\* changes a record of accessTokens/ or tokens/.
C23_OverrideIgnoresTokenState ==
  [][/\ accessTokens' = accessTokens
     /\ tokens' = tokens
     /\ \A a \in 1..Len(guardAuthorizations') :
          /\ guardAuthorizations'[a].authorized = TRUE
          /\ guardAuthorizations'[a].reason = "manual_override"
     /\ \A n \in 1..Len(accessHistory') :
          /\ accessHistory'[n].authorized = TRUE
          /\ accessHistory'[n].reason = "manual_override"
     /\ \A p \in Procs :
          (/\ pc'[p] = "done" /\ op'[p] = "guardAuthorize"
           /\ (req'[p].id # NoId \/ req'[p].token # EmptyTok)
           /\ faults' = 0) =>
            resp'[p].status = 200 /\ resp'[p].body = "ok"]_vars

\* one call has succeeded with the used token of tokens/ and another with
\* the token of identity 1 after its expiry
C23_Witness ==
  \E p, q \in Overridden :
    /\ req[p].token = LegacyTok /\ tokens[LegacyTok].used
    /\ req[q].token = FirstTok
    /\ accessTokens[1].token = FirstTok
    /\ accessTokens[1].expiresAt # 0 /\ req[q].at > accessTokens[1].expiresAt

\* C24: the audit history only grows at its end: every step leaves each
\* accessHistory entry written so far in place with all its fields, whether
\* the step belongs to a validate, a verify, an authorize or a deletion of
\* the identity the entries name.
C24_AuditAppendOnly ==
  [][/\ Len(accessHistory') >= Len(accessHistory)
     /\ \A n \in 1..Len(accessHistory) : accessHistory'[n] = accessHistory[n]]_vars

\* identity 1 was deleted after a call had logged an entry naming it, and the
\* entry is still there
C24_Witness ==
  \E p, q \in Procs :
    /\ Done(q) /\ op[q] = "delete" /\ req[q].id = 1
    /\ p \in req[q].after
    /\ op[p] \in {"validate", "verify", "guardAuthorize"}
    /\ ~accessTokens[1].exists
    /\ \E n \in 1..Len(accessHistory) : accessHistory[n].id = 1

\* the finished GET /history calls
Queried == {p \in Procs : Done(p) /\ op[p] = "history"}

MinOf(a, b) == IF a <= b THEN a ELSE b

\* the keys of the rows a reply carries
KeysOf(data) == {data[j].key : j \in 1..Len(data)}

\* C25: a GET /history call with limit = k, k any integer from 0 to 500,
\* returns min(k, total) entries, no entry left out has a greater timestamp
\* than one returned, and the entries come newest first.
C25_ExactlyMinKTotal ==
  \A p \in Queried :
    (req[p].limit.kind = "int" /\ req[p].limit.n \in 0..HistoryMax) =>
      LET data == resp[p].data
      IN /\ resp[p].status = 200
         /\ Len(data) = MinOf(req[p].limit.n, Len(accessHistory))
         /\ \A j \in 1..(Len(data) - 1) : data[j].timestamp >= data[j + 1].timestamp
         /\ \A n \in 1..Len(accessHistory) :
              n \notin KeysOf(data) =>
                \A j \in 1..Len(data) : data[j].timestamp >= accessHistory[n].timestamp

\* C26: no GET /history reply carries more than 500 entries; a limit above
\* 500 yields min(500, total) entries and a missing limit min(50, total).
C26_AtMostHistoryMax ==
  \A p \in Queried :
    /\ Len(resp[p].data) <= HistoryMax
    /\ (req[p].limit.kind = "int" /\ req[p].limit.n > HistoryMax) =>
         /\ resp[p].status = 200
         /\ Len(resp[p].data) = MinOf(HistoryMax, Len(accessHistory))
    /\ req[p].limit.kind = "missing" =>
         /\ resp[p].status = 200
         /\ Len(resp[p].data) = MinOf(HistoryDefault, Len(accessHistory))

\* a query with limit 501 of a history of 501 entries has returned 500, and
\* one without limit 50
C26_Witness ==
  /\ Len(accessHistory) = HistoryMax + 1
  /\ \E p, q \in Queried :
       /\ req[p].limit = IntLimit(HistoryMax + 1) /\ Len(resp[p].data) = HistoryMax
       /\ req[q].limit = NoLimit /\ Len(resp[q].data) = HistoryDefault

\* the reply of p carries a signed claim
Issued(r) == r.claim # NoGuard

\* C27: a login is answered with a claim exactly when the guards/ record it
\* read exists, holds a pinHash and the PIN sent, trimmed, is the one the
\* hash was made of; the claim names the guard of the request.  A record
\* without pinHash is answered 500 "no pin configured for guard", a wrong PIN
\* 401 "invalid pin", a missing record 404, missing input 400, none of them
\* with a claim.
C27_ClaimIffVerified ==
  [][\A p \in Procs :
       /\ (pc[p] = "idle" /\ pc'[p] = "gl_compare") =>
            loc'[p].guard = guards[req'[p].guard]
       /\ (pc[p] = "idle" /\ pc'[p] = "done" /\ op'[p] = "guardLogin") =>
            /\ req'[p].guard = NoGuard \/ req'[p].pin = NoPin
            /\ resp'[p].status = 400 /\ ~Issued(resp'[p])
       /\ (pc[p] = "gl_compare" /\ pc'[p] = "done") =>
            LET rec == loc[p].guard
                r == resp'[p]
                verifies == rec.pinHash = Hash(PinTrim(req[p].pin))
            IN /\ Issued(r) <=> (rec.exists /\ rec.pinHash # NoHash /\ verifies)
               /\ Issued(r) => r.claim = req[p].guard /\ r.status = 200
               /\ ~rec.exists => r.status = 404
               /\ (rec.exists /\ rec.pinHash = NoHash) =>
                    r.status = 500 /\ r.body = "no pin configured for guard"
               /\ (rec.exists /\ rec.pinHash # NoHash /\ ~verifies) =>
                    r.status = 401 /\ r.body = "invalid pin"]_vars

\* g1 has logged in with its PIN, and a login of g2, whose record has no
\* pinHash, was answered 500
C27_Witness ==
  \E p, q \in Procs :
    /\ Done(p) /\ op[p] = "guardLogin" /\ resp[p].claim = "g1"
    /\ Done(q) /\ op[q] = "guardLogin" /\ req[q].guard = "g2"
    /\ guards["g2"].exists /\ guards["g2"].pinHash = NoHash
    /\ resp[q].status = 500 /\ resp[q].body = "no pin configured for guard"

\* p takes a step of POST /verify
VerifyStep(p) == pc'[p] # pc[p] /\ op'[p] = "verify"

\* a step of /verify that ends the call has pushed one entry with the call's
\* id and token and authorized = a, unless the store refused the write
LoggedOnce(p, a) ==
  \/ /\ accessHistory' = accessHistory
     /\ faults' = faults + 1
  \/ /\ Len(accessHistory') = Len(accessHistory) + 1
     /\ SubSeq(accessHistory', 1, Len(accessHistory)) = accessHistory
     /\ Pushed.id = req'[p].id
     /\ Pushed.token = req'[p].token
     /\ Pushed.authorized = a
     /\ faults' = faults

\* C28: a /verify call with id and token reads accessTokens/{id}; it is
\* answered "Acceso autorizado" exactly when that record exists and its
\* token equals the one sent, 404 "ID no encontrado" when there is no record
\* and "Token incorrecto" otherwise (400 when id or token is missing).  The
\* step that ends the call pushes its single audit entry, no other step of
\* the call writes to the history, and none changes accessTokens/ or tokens/.
C28_VerifyIffStoredTokenEqual ==
  [][\A p \in Procs : VerifyStep(p) =>
       /\ accessTokens' = accessTokens /\ tokens' = tokens
       /\ pc'[p] # "done" => accessHistory' = accessHistory
       /\ pc[p] = "idle" =>
            IF req'[p].id = NoId \/ req'[p].token = EmptyTok
            THEN /\ pc'[p] = "done" /\ resp'[p].status = 400
                 /\ resp'[p].body = "Faltan datos: id o token"
                 /\ LoggedOnce(p, FALSE)
            ELSE /\ pc'[p] = "vf_log"
                 /\ loc'[p].tokenData = accessTokens[req'[p].id]
       /\ pc[p] = "vf_log" =>
            LET rec == loc[p].tokenData
            IN IF ~rec.exists
               THEN /\ pc'[p] = "done" /\ resp'[p].status = 404
                    /\ resp'[p].body = "ID no encontrado"
                    /\ LoggedOnce(p, FALSE)
               ELSE IF rec.token # req[p].token
               THEN /\ pc'[p] = "done" /\ resp'[p].status = 200
                    /\ resp'[p].body = "Token incorrecto"
                    /\ LoggedOnce(p, FALSE)
               ELSE pc'[p] = "vf_name"
       /\ pc[p] = "vf_name" => pc'[p] = "vf_ok"
       /\ pc[p] = "vf_ok" =>
            /\ pc'[p] = "done" /\ resp'[p].status = 200
            /\ resp'[p].body = "Acceso autorizado"
            /\ LoggedOnce(p, TRUE)
       /\ (pc'[p] = "done" /\ resp'[p].body = "Acceso autorizado") => pc[p] = "vf_ok"]_vars

\* the three outcomes: a call was authorized with the stored token of
\* identity 1, and one with another token was answered "Token incorrecto"
C28_Witness ==
  \E p, q \in Procs :
    /\ Done(p) /\ op[p] = "verify" /\ req[p].id = 1 /\ req[p].token = FirstTok
    /\ resp[p].body = "Acceso autorizado"
    /\ Done(q) /\ op[q] = "verify" /\ req[q].id = 1 /\ req[q].token = LegacyTok
    /\ resp[q].body = "Token incorrecto"
    /\ accessTokens[1].exists /\ accessTokens[1].token = FirstTok
    /\ Len(accessHistory) = 2

\* C29: when the read of students/{id} fails during a /validate that has
\* accepted the token, the call goes on with a null name: it is answered 200
\* ok with the identity, and the audit entry it pushes says authorized, reason
\* "ok" and carries the null name.
C29_NameLookupFailureKeepsSuccess ==
  [][\A p \in Procs :
       /\ (pc[p] = "vs_name" /\ pc'[p] # "vs_name") =>
            /\ pc'[p] = "vs_log"
            /\ faults' > faults => loc'[p].name = NoName
       /\ (pc[p] = "vs_log" /\ pc'[p] # "vs_log") =>
            /\ pc'[p] = "done"
            /\ resp'[p].status = 200 /\ resp'[p].body = "ok"
            /\ resp'[p].id = loc[p].foundKey
            /\ Len(accessHistory') > Len(accessHistory) =>
                 /\ Pushed.name = loc[p].name
                 /\ Pushed.authorized = TRUE /\ Pushed.reason = "ok"
                 /\ Pushed.id = loc[p].foundKey]_vars

\* a /validate whose name lookup failed was answered 200 ok and its audit
\* entry, without a name, is in the history
C29_Witness ==
  \E p \in Procs :
    /\ Done(p) /\ op[p] = "validate" /\ resp[p].status = 200 /\ resp[p].body = "ok"
    /\ faults = 1
    /\ Len(accessHistory) = 1 /\ Len(attendance) = 1
    /\ accessHistory[1].name = NoName
    /\ accessHistory[1].authorized = TRUE /\ accessHistory[1].id = resp[p].id

\* token value t is stored keyed by identity, as the 'token' child of an
\* accessTokens/ record
StoredByIdentity(t) == \E i \in Ids : accessTokens[i].exists /\ accessTokens[i].token = t

\* token value t is stored keyed by value: tokens/{t} exists and holds the
\* identity as studentUid, as createToken writes it
StoredByValue(t) == t \in DOMAIN tokens /\ tokens[t].exists

\* C30: a /validate call of server.ts that presents a token value is
\* answered 404 "token not found" only if the value is stored in neither
\* shape, neither as the 'token' child of an accessTokens/ record nor as the
\* key of a tokens/ record.
C30_BothShapesResolve ==
  \A p \in Procs :
    (Done(p) /\ op[p] = "validate" /\ req[p].token \in TokVals) =>
      ((resp[p].status = 404 /\ resp[p].body = "token not found") <=>
         ~(StoredByIdentity(req[p].token) \/ StoredByValue(req[p].token)))

\* C38: when all the requests are ensureTokenForId calls for one identity
\* and all have returned, each has returned the token accessTokens/{id}
\* holds.
C38_EnsureReturnsStoredToken ==
  \A i \in Ids :
    (AllDone /\ \A p \in Procs : op[p] = "ensureToken" /\ req[p].id = i) =>
      \A p \in Procs :
        /\ accessTokens[i].exists
        /\ resp[p].token = accessTokens[i].token


\* C34: a /validate call that has marked the token used ends with the success
\* reply, whatever the outcome of its attendance write.
C34_MarkedUsedReportsSuccess ==
  [][\A p \in Procs :
       (op[p] = "validateLegacy" /\ pc[p] = "vl_att" /\ pc'[p] = "done") =>
         resp'[p].status = 200]_vars


\* C33: a /validate call that ends without success has changed no token
\* record and created no attendance mark: its last step changes neither, and
\* it is not a call that has already updated the record it read.
C33_OnlySuccessChangesRecords ==
  [][\A p \in Procs :
       (/\ op'[p] \in {"validate", "validateLegacy"}
        /\ pc[p] # "done" /\ pc'[p] = "done"
        /\ resp'[p].status # 200) =>
         /\ accessTokens' = accessTokens
         /\ tokens' = tokens
         /\ attendance' = attendance
         /\ pc[p] # "vl_att"]_vars


\* C35: every stored shift has an active flag, true while it has no
\* endTimestamp and false exactly when it has one.
C35_ShiftRecordConsistent ==
  \A k \in ShiftIds :
    guardShifts[k].exists =>
      /\ guardShifts[k].active \in {"true", "false"}
      /\ (guardShifts[k].endTimestamp # 0) <=> (guardShifts[k].active = "false")


\* the records a /validate of server.ts can resolve the value t to: the
\* children of accessTokens/ and tokens/ whose 'token' is t
RecordsWithToken(t) ==
  {accessTokens[i] : i \in {j \in Ids : accessTokens[j].exists /\ accessTokens[j].token = t}}
  \cup {tokens[k] : k \in {j \in DOMAIN tokens : tokens[j].exists /\ tokens[j].token = t}}

\* the record the /validate of part_003 resolves the value t to: tokens/{t}
RecordsAtKey(t) ==
  IF t \in DOMAIN tokens /\ tokens[t].exists THEN {tokens[t]} ELSE {}

\* the decline reason body agrees with the records recs as they are stored
\* when the reply is sent
ReasonAgrees(body, recs) ==
  /\ body = "token not found" => recs = {}
  /\ body = "token already used" => \E r \in recs : r.used
  /\ body = "token expired" =>
       \E r \in recs : r.expiresAt # 0 /\ clock > r.expiresAt

\* C31: when a /validate call replies with a decline, the reason agrees with
\* the stored record of the presented token at that moment: not found only if
\* no record holds it, already used only if a record holding it is used,
\* expired only if its expiresAt has passed.
C31_DeclineMatchesStoredRecord ==
  [][\A p \in Procs :
       (pc[p] # "done" /\ pc'[p] = "done") =>
         /\ (op'[p] = "validate" /\ pc[p] = "vs_check") =>
              ReasonAgrees(resp'[p].body, RecordsWithToken(loc[p].tokenId))
         /\ op'[p] = "validateLegacy" =>
              ReasonAgrees(resp'[p].body, RecordsAtKey(req'[p].token))]_vars


\* C32: a /validate of server.ts that resolved an unused record declines it as
\* expired exactly when the record has an expiresAt and the time at which the
\* call arrived is strictly greater; otherwise the attendance mark it writes
\* carries that arrival time, however late the decision is taken.
C32_ExpiryAgainstArrivalTime ==
  [][\A p \in Procs :
       (/\ op[p] = "validate" /\ pc[p] = "vs_check" /\ pc'[p] # "vs_check"
        /\ loc[p].foundKey # NoId /\ ~loc[p].tokenData.used) =>
         LET expiresAt == loc[p].tokenData.expiresAt
             late == expiresAt # 0 /\ req[p].at > expiresAt
         IN /\ (resp'[p].body = "token expired") <=> late
            /\ late => attendance' = attendance
            /\ (~late /\ attendance' # attendance) =>
                 /\ Len(attendance') = Len(attendance) + 1
                 /\ attendance'[Len(attendance')].timestamp = req[p].at
                 /\ attendance'[Len(attendance')].tokenId = loc[p].tokenId]_vars

\* a call that arrived at the instant its token expires was accepted after
\* the clock had advanced, and its mark carries the arrival time
C32_Witness ==
  \E p \in Procs :
    /\ op[p] = "validate" /\ pc[p] = "done" /\ resp[p].status = 200
    /\ req[p].at = 1 /\ accessTokens[1].expiresAt = 1
    /\ \E n \in DOMAIN attendance :
         attendance[n].timestamp = 1 /\ attendance[n].tokenId = req[p].token
    /\ \E n \in DOMAIN accessHistory :
         accessHistory[n].authorized /\ accessHistory[n].timestamp = 2


\* request q is a completed regeneration of identity 1's token
Regenerated(q) ==
  /\ op[q] \in {"usersPost", "usersPut"} /\ pc[q] = "done"
  /\ req[q].id = 1 /\ req[q].regenerate /\ resp[q].status = 200

\* request q is a completed deletion of identity 1
Deleted(q) == op[q] = "delete" /\ pc[q] = "done" /\ req[q].id = 1

\* the value t was a token of identity 1 before request q replaced or removed
\* it: the token it started with, or one handed out before the one q returned
\* or before q deleted the identity
Superseded(t, q) ==
  \/ /\ Regenerated(q)
     /\ t = FirstTok \/ (t \in FreshToks /\ t < resp[q].token)
  \/ /\ Deleted(q)
     /\ t = FirstTok \/
        \E r \in req[q].after : Regenerated(r) /\ t \in FreshToks /\ t <= resp[r].token

\* C37: a /validate or /verify that starts after a regeneration or deletion
\* of identity 1 has completed declines every value the identity held before
\* it (validate with 404 not found, verify as incorrect, or as unknown id
\* once the identity is deleted), and one that starts after a regeneration,
\* with no other writer, accepts the value the regeneration returned.
C37_OldTokenDeclinedNewAccepted ==
  \A p \in Procs :
    (pc[p] = "done" /\ op[p] \in {"validate", "verify"}) =>
      /\ (\E q \in req[p].after : Superseded(req[p].token, q)) =>
           IF op[p] = "validate"
           THEN resp[p].status = 404 /\ resp[p].body = "token not found"
           ELSE /\ resp[p].body \in {"Token incorrecto", "ID no encontrado"}
                /\ (\A r \in Procs : op[r] # "delete") =>
                     resp[p].body = "Token incorrecto"
      /\ (\E q \in req[p].after :
            /\ Regenerated(q) /\ resp[q].token = req[p].token
            /\ \A r \in Procs \ {p, q} : op[r] \in {"none", "validate", "verify"}) =>
           /\ resp[p].status = 200
           /\ resp[p].id = 1
           /\ resp[p].body = (IF op[p] = "validate" THEN "ok" ELSE "Acceso autorizado")

\* the token identity 1 started with was declined as not found by a /validate
\* that began after its regeneration
C37_Witness ==
  \E p \in Procs, q \in Procs :
    /\ op[p] = "validate" /\ pc[p] = "done" /\ req[p].token = FirstTok
    /\ q \in req[p].after /\ Regenerated(q)
    /\ resp[p].status = 404
    /\ accessTokens[1].exists /\ accessTokens[1].token = resp[q].token


\* C36: whatever guardId the body names, a step of a handler behind
\* requireGuard writes only a shift of the guard of the verified claim, a
\* shift that belonged to that guard before the step when it existed, and
\* appends only an override that carries the claim's guardId.
C36_ActsOnlyForClaimedGuard ==
  [][\A p \in Procs :
       (pc'[p] # pc[p] /\ op'[p] \in GuardHandlers) =>
         /\ \A k \in ShiftIds :
              guardShifts'[k] # guardShifts[k] =>
                /\ guardShifts'[k].guardId = req'[p].claim
                /\ guardShifts[k].exists => guardShifts[k].guardId = req'[p].claim
         /\ guardAuthorizations' # guardAuthorizations =>
              /\ Len(guardAuthorizations') = Len(guardAuthorizations) + 1
              /\ guardAuthorizations'[Len(guardAuthorizations')].guardId =
                   req'[p].claim]_vars

\* the holder of a claim of g2 named g1 in the bodies of a shift start and of
\* an override or a shift end: the shift and the override carry g2, and the
\* open shift of g1 was not ended
C36_Witness ==
  \E p \in Procs, q \in Procs :
    /\ op[p] = "guardShiftStart" /\ pc[p] = "done" /\ resp[p].status = 200
    /\ req[p].claim = "g2" /\ req[p].bodyGuard = "g1"
    /\ guardShifts[resp[p].shiftId].guardId = "g2"
    /\ pc[q] = "done" /\ req[q].claim = "g2" /\ req[q].bodyGuard = "g1"
    /\ \/ /\ op[q] = "guardAuthorize" /\ resp[q].status = 200
          /\ \E n \in DOMAIN guardAuthorizations :
               guardAuthorizations[n].guardId = "g2"
       \/ /\ op[q] = "guardShiftEnd" /\ req[q].shiftId = 1
          /\ resp[q].status = 403
          /\ guardShifts[1].guardId = "g1" /\ guardShifts[1].endTimestamp = 0

====
